---- MODULE Spec2Model ----
(***************************************************************************)
(* Model of the Figma MCP relay server (figma-mcp-server/src/server.js):   *)
(* the session registry, the plugin connection pool, the JSON-RPC front    *)
(* end (POST /message), the operation dispatcher and the response          *)
(* correlator (per-call timers and 'message' listeners on plugin sockets); *)
(* and of the Figma plugin (figma-plugin/code/ui.html): the UI script that  *)
(* owns the WebSocket to the server (connection, status check, reconnect,  *)
(* forwarding) and the plugin code's dispatcher of operation messages.     *)
(***************************************************************************)
EXTENDS Integers, Sequences, FiniteSets, TLC

(* ---------------------------------------------------------------------- *)
(* Bounds of the model                                                     *)
(* ---------------------------------------------------------------------- *)
MaxSessions == 2
MaxSockets == 2
MaxRequests == 1
MaxReplies == 2
MaxHeartbeats == 1
MaxOverlap == 2
MaxOps == 2         \* operations the plugin code applies to the document
MaxInbox == 2       \* messages waiting for the plugin code
MaxPosted == 3      \* messages waiting for the UI script
MaxSent == 4        \* frames the UI script sends on one socket

(* ---------------------------------------------------------------------- *)
(* Values                                                                  *)
(* ---------------------------------------------------------------------- *)
NoId == -1          \* the envelope has no id (undefined)
Null == 0           \* the JSON value null
Absent == "undefined"
Off == -1           \* no timer is pending

InvalidRequest == -32600
MethodNotFound == -32601
InvalidParams == -32602
InternalError == -32603

AwaitOnce == {"figma.selectNode", "figma.listNodes", "figma.deleteNode"}
AwaitOn == {"figma.moveNode", "figma.createIcon", "figma.createBorderBox", "figma.drawLine"}
AwaitTools == AwaitOnce \cup AwaitOn
ReportTools ==
    {"figma.createRectangle", "figma.createText", "figma.createPage",
     "figma.changeColor", "figma.changeRadius", "figma.changeTypeface",
     "figma.changeFontStyle", "figma.changeAlignment", "figma.changeSpacing",
     "figma.listFonts", "figma.changeTextResize"}
Catalog == {"addNumbersTool", "figma.getFile"} \cup ReportTools \cup AwaitTools

(* The `tools` array of the tools/list result, by name, in its order. *)
ToolDescriptors ==
    <<"addNumbersTool", "figma.getFile", "figma.createRectangle", "figma.createText",
      "figma.createPage", "figma.selectNode", "figma.changeColor", "figma.changeRadius",
      "figma.changeTypeface", "figma.changeFontStyle", "figma.changeAlignment",
      "figma.changeSpacing", "figma.listFonts", "figma.changeTextResize",
      "figma.listNodes", "figma.deleteNode", "figma.moveNode", "figma.createIcon",
      "figma.createBorderBox", "figma.drawLine">>

(* The `count` field of the tools/list result. *)
ToolsListCount == 19

(* The tools/list result as the agent reads it: its count field and the    *)
(* length of its tools array.                                              *)
ToolsListResult == [count |-> ToolsListCount, tools |-> Len(ToolDescriptors)]

(* The `required` array of each descriptor of the tools/list catalog. *)
Required(tool) ==
    CASE tool = "addNumbersTool" -> {"a", "b"}
      [] tool = "figma.getFile" -> {"fileId"}
      [] tool = "figma.createRectangle" -> {"position", "size"}
      [] tool = "figma.createText" -> {"text", "position"}
      [] tool = "figma.createPage" -> {"pageName", "description"}
      [] tool = "figma.selectNode" -> {"nodeId"}
      [] tool = "figma.changeColor" -> {"color"}
      [] tool = "figma.changeRadius" -> {"radius"}
      [] tool = "figma.changeTypeface" -> {"fontFamily"}
      [] tool = "figma.changeTextResize" -> {"resizeMode"}
      [] tool = "figma.moveNode" -> {"position"}
      [] tool = "figma.createIcon" -> {"iconName", "position"}
      [] tool = "figma.createBorderBox" -> {"position", "size", "options"}
      [] tool = "figma.drawLine" -> {"start", "end"}
      [] OTHER -> {}

(* The optional arguments the handlers test ("at least one of ..."). *)
Tested(tool) ==
    CASE tool = "figma.changeFontStyle" -> {"fontSize", "fontWeight", "italic"}
      [] tool = "figma.changeAlignment" -> {"horizontal", "vertical"}
      [] tool = "figma.changeSpacing" -> {"padding", "itemSpacing"}
      [] OTHER -> {}

(* The argument check at the head of each tools/call branch: TRUE when the *)
(* branch answers -32602.  args is the set of arguments that are present.  *)
ArgsRejected(tool, args) ==
    CASE tool = "addNumbersTool" -> FALSE
      [] tool = "figma.getFile" -> "fileId" \notin args
      [] tool = "figma.createRectangle" -> "position" \notin args \/ "size" \notin args
      [] tool = "figma.createText" -> "text" \notin args \/ "position" \notin args
      [] tool = "figma.createPage" -> "pageName" \notin args \/ "description" \notin args
      [] tool = "figma.selectNode" -> "nodeId" \notin args
      [] tool = "figma.changeColor" -> "color" \notin args
      [] tool = "figma.changeRadius" -> "radius" \notin args
      [] tool = "figma.changeTypeface" -> "fontFamily" \notin args
      [] tool = "figma.changeFontStyle" ->
            "fontSize" \notin args /\ "fontWeight" \notin args /\ "italic" \notin args
      [] tool = "figma.changeAlignment" ->
            "horizontal" \notin args /\ "vertical" \notin args
      [] tool = "figma.changeSpacing" ->
            "padding" \notin args /\ "itemSpacing" \notin args
      [] tool = "figma.changeTextResize" -> "resizeMode" \notin args
      [] tool = "figma.moveNode" -> "position" \notin args
      [] tool = "figma.createIcon" -> "iconName" \notin args \/ "position" \notin args
      [] tool = "figma.createBorderBox" ->
            "position" \notin args \/ "size" \notin args \/ "options" \notin args
      [] tool = "figma.drawLine" -> "start" \notin args \/ "end" \notin args
      [] OTHER -> FALSE

(* The `type` tag of the operation a tool broadcasts. *)
OpTag(tool) ==
    CASE tool = "figma.createRectangle" -> "create-rectangle"
      [] tool = "figma.createText" -> "create-text"
      [] tool = "figma.createPage" -> "create-page"
      [] tool = "figma.selectNode" -> "select-node"
      [] tool = "figma.changeColor" -> "change-color"
      [] tool = "figma.changeRadius" -> "change-radius"
      [] tool = "figma.changeTypeface" -> "change-typeface"
      [] tool = "figma.changeFontStyle" -> "change-font-style"
      [] tool = "figma.changeAlignment" -> "change-alignment"
      [] tool = "figma.changeSpacing" -> "change-spacing"
      [] tool = "figma.listFonts" -> "list-fonts"
      [] tool = "figma.changeTextResize" -> "change-text-resize"
      [] tool = "figma.listNodes" -> "list-nodes"
      [] tool = "figma.deleteNode" -> "delete-node"
      [] tool = "figma.moveNode" -> "move-node"
      [] tool = "figma.createIcon" -> "create-icon"
      [] tool = "figma.createBorderBox" -> "create-border-box"
      [] tool = "figma.drawLine" -> "draw-line"
      [] OTHER -> "none"

(* ---------------------------------------------------------------------- *)
(* State                                                                   *)
(* ---------------------------------------------------------------------- *)
VARIABLES
    now,           \* Date.now() at the last plugin connection
    sessions,      \* the Map sessionId -> [initialized]
    nextSession,   \* the next identifier uuidv4() returns
    stream,        \* per session id, the frames written on its SSE response
    wsState,       \* per plugin socket: "none", "open", "closed"
    clientIdOf,    \* per plugin socket, the clientId its handlers closed over
    figmaClients,  \* the Map clientId -> socket, in insertion order
    listeners,     \* per plugin socket, the call listeners attached to 'message'
    wsOut,         \* per plugin socket, the frames the server sent on it
    requests,      \* the POST /message requests received, in order
    out,           \* per request, the HTTP response and the SSE writes it caused
    sendLog,       \* per request, the send attempts of its broadcast
    timers,        \* the requests whose timeout timer is armed
    fetching,      \* the figma.getFile requests awaiting the Figma API
    heartbeat,     \* the session ids whose heartbeat setInterval is active
    shutdown,      \* the steps the SIGINT handler has taken, in order
    readyState,    \* UI script: ws.readyState ("none" while ws is undefined)
    reconnectAttempts,       \* UI script: the counter of that name
    reconnectTimeout,        \* UI script: seconds until the reconnect timer fires, or Off
    connectionCheckInterval, \* UI script: seconds until the next status check, or Off
    sent,          \* UI script: the frames sent on the socket ws refers to
    toPlugin,      \* messages the UI script posted to the plugin code, not yet handled
    toUi,          \* messages the plugin code posted to the UI script, not yet handled
    executed       \* the operations the plugin code has applied to the document

serverVars == <<now, sessions, nextSession, stream, wsState, clientIdOf, figmaClients,
                listeners, wsOut, requests, out, sendLog, timers, fetching, heartbeat,
                shutdown>>

pluginVars == <<readyState, reconnectAttempts, reconnectTimeout, connectionCheckInterval,
                sent, toPlugin, toUi, executed>>

vars == <<serverVars, pluginVars>>

SessionIds == 1..MaxSessions
Sockets == 1..MaxSockets

(* ---------------------------------------------------------------------- *)
(* Map helpers (a JavaScript Map keeps insertion order; set() on a present *)
(* key replaces the value in place)                                        *)
(* ---------------------------------------------------------------------- *)
MapHas(m, k) == \E i \in 1..Len(m) : m[i].clientId = k

MapSet(m, k, v) ==
    IF MapHas(m, k)
    THEN [i \in 1..Len(m) |-> IF m[i].clientId = k THEN [clientId |-> k, ws |-> v] ELSE m[i]]
    ELSE Append(m, [clientId |-> k, ws |-> v])

MapDelete(m, k) == SelectSeq(m, LAMBDA e : e.clientId # k)

MapSockets(m) == {m[i].ws : i \in 1..Len(m)}

(* ---------------------------------------------------------------------- *)
(* Messages                                                                *)
(* ---------------------------------------------------------------------- *)
Ev(ch, status, kind, code, id, tag) ==
    [ch |-> ch, status |-> status, kind |-> kind, code |-> code, id |-> id, tag |-> tag,
     data |-> << >>]

HttpPlain(status) == Ev("http", status, "plain", 0, Null, "error")
HttpRpcError(id) == Ev("http", 200, "error", InvalidRequest, id, "Invalid JSON-RPC request")
HttpAck(id) == Ev("http", 200, "ack", 0, id, "ack")
SseResult(id, tag) == Ev("sse", 0, "result", 0, id, tag)

(* Variant that puts the error in the HTTP response. *)
SseError_OverHttp(id, code, tag) == Ev("http", 200, "error", code, id, tag)

SseError(id, code, tag) == Ev("sse", 0, "error", code, id, tag)

(* Variant in which a write after the connection's close still lands. *)
WriteSse_AfterClose(st, open, sid, r, id) ==
    [st EXCEPT ![sid] = Append(@, [event |-> "message", req |-> r, id |-> id])]

(* Variant that writes the event on the response of every open session. *)
WriteSse_EveryStream(st, open, sid, r, id) ==
    [s \in DOMAIN st |->
        IF s \in open THEN Append(st[s], [event |-> "message", req |-> r, id |-> id])
        ELSE st[s]]

(* sseRes.write of one `message` event: a write on a response whose        *)
(* connection has closed is dropped.                                       *)
WriteSse(st, open, sid, r, id) ==
    IF sid \in open
    THEN [st EXCEPT ![sid] = Append(@, [event |-> "message", req |-> r, id |-> id])]
    ELSE st

(* ---------------------------------------------------------------------- *)
(* Plugin frames                                                           *)
(* ---------------------------------------------------------------------- *)
Frame(type, op, err) == [type |-> type, originalOperation |-> op, error |-> err]
Malformed == Frame("<not JSON>", "", "")
AwaitOps == {OpTag(t) : t \in AwaitTools}
PluginFrames ==
    {Malformed, Frame("plugin-ready", "", ""), Frame("nodes-deleted", "", ""),
     Frame("nodes-moved", "", ""), Frame("nodes-list", "", ""), Frame("fonts-list", "", "")}
    \cup {Frame("operation-completed", op, "") : op \in AwaitOps \cup {"create-text"}}
    \cup {Frame("operation-error", op, "failed") : op \in AwaitOps}
    \cup {Frame("operation-error", "select-node", "Node not found")}
    \cup {Frame("operation-error", op, "") : op \in {"delete-node", "move-node"}}

Init ==
    /\ now = 0
    /\ sessions = << >>
    /\ nextSession = 1
    /\ stream = [s \in SessionIds |-> << >>]
    /\ wsState = [w \in Sockets |-> "none"]
    /\ clientIdOf = [w \in Sockets |-> 0]
    /\ figmaClients = << >>
    /\ listeners = [w \in Sockets |-> {}]
    /\ wsOut = [w \in Sockets |-> << >>]
    /\ requests = << >>
    /\ out = << >>
    /\ sendLog = << >>
    /\ timers = {}
    /\ fetching = {}
    /\ heartbeat = {}
    /\ shutdown = << >>
    /\ readyState = "none"
    /\ reconnectAttempts = 0
    /\ reconnectTimeout = Off
    /\ connectionCheckInterval = Off
    /\ sent = << >>
    /\ toPlugin = << >>
    /\ toUi = <<Frame("connect-to-server", "", "")>>
    /\ executed = << >>

(* ---------------------------------------------------------------------- *)
(* Plugin connection pool (wss.on('connection'), ws.on('close'))           *)
(* ---------------------------------------------------------------------- *)
NextSocket == CHOOSE w \in Sockets : wsState[w] = "none" /\ \A v \in 1..(w - 1) : wsState[v] # "none"

(* Variant of the connection handler without the final ws.send. *)
PluginConnect_NoGreeting(dt) ==
    /\ \E w \in Sockets : wsState[w] = "none"
    /\ dt = 0 => wsState[1] # "none"
    /\ now' = now + dt
    /\ LET w == NextSocket IN
        /\ wsState' = [wsState EXCEPT ![w] = "open"]
        /\ clientIdOf' = [clientIdOf EXCEPT ![w] = now']
        /\ figmaClients' = MapSet(figmaClients, now', w)
    /\ UNCHANGED <<pluginVars, shutdown, heartbeat, sessions, nextSession, stream, listeners,
                   requests, out, sendLog, timers, fetching, wsOut>>

(* wss.on('connection'): the client id is Date.now().toString(); dt is   *)
(* the time that has passed since the previous connection (0: the same    *)
(* millisecond); the first connection comes after the server's start.      *)
PluginConnect(dt) ==
    /\ \E w \in Sockets : wsState[w] = "none"
    /\ dt = 0 => wsState[1] # "none"
    /\ now' = now + dt
    /\ LET w == NextSocket IN
        /\ wsState' = [wsState EXCEPT ![w] = "open"]
        /\ clientIdOf' = [clientIdOf EXCEPT ![w] = now']
        /\ figmaClients' = MapSet(figmaClients, now', w)
        /\ wsOut' = [wsOut EXCEPT ![w] = Append(@, [type |-> "server-ready", req |-> 0])]
    /\ UNCHANGED <<pluginVars, shutdown, heartbeat, sessions, nextSession, stream, listeners, requests, out,
                   sendLog, timers, fetching>>

(* ws.on('close'): figmaClients.delete(clientId). *)
PluginClose(w) ==
    /\ wsState[w] = "open"
    /\ wsState' = [wsState EXCEPT ![w] = "closed"]
    /\ figmaClients' = MapDelete(figmaClients, clientIdOf[w])
    /\ UNCHANGED <<pluginVars, shutdown, heartbeat, now, sessions, nextSession, stream, clientIdOf, listeners, wsOut,
                   requests, out, sendLog, timers, fetching>>

(* Variant without the try/catch around client.send: the loop ends at the  *)
(* first send that throws.                                                 *)
sendOperationToPlugin_StopsAtThrow(pool, bad) ==
    LET all == [i \in 1..Len(pool) |-> [ws |-> pool[i].ws, threw |-> pool[i].ws \in bad]]
        thrown == {i \in 1..Len(pool) : all[i].threw}
    IN IF thrown = {} THEN all
       ELSE SubSeq(all, 1, CHOOSE i \in thrown : \A j \in thrown : i <= j)

(* sendOperationToPlugin: one send attempt per pool entry, in Map order;   *)
(* bad is the set of sockets whose send throws: the error is caught and    *)
(* logged.                                                                 *)
sendOperationToPlugin(pool, bad) ==
    [i \in 1..Len(pool) |-> [ws |-> pool[i].ws, threw |-> pool[i].ws \in bad]]

Delivered(attempts) == {attempts[i].ws : i \in {j \in 1..Len(attempts) : ~attempts[j].threw}}

(* ---------------------------------------------------------------------- *)
(* Session registry (GET /sse-cursor, req.on('close'))                     *)
(* ---------------------------------------------------------------------- *)
SessionOpen ==
    /\ nextSession <= MaxSessions
    /\ sessions' = [s \in DOMAIN sessions \cup {nextSession} |->
                        IF s = nextSession THEN [initialized |-> FALSE] ELSE sessions[s]]
    /\ stream' = [stream EXCEPT ![nextSession] =
                        Append(@, [event |-> "endpoint", req |-> 0, id |-> nextSession])]
    /\ heartbeat' = heartbeat \cup {nextSession}
    /\ nextSession' = nextSession + 1
    /\ UNCHANGED <<pluginVars, shutdown, now, wsState, clientIdOf, figmaClients, listeners, wsOut, requests,
                   out, sendLog, timers, fetching>>

SessionsDelete(m, sid) == [s \in DOMAIN m \ {sid} |-> m[s]]

(* Variant of the close handler without the clearInterval(hb). *)
clearInterval_Skipped(hs, sid) == hs

(* clearInterval(hb) of the session's heartbeat. *)
clearInterval(hs, sid) == hs \ {sid}

(* The setInterval callback of session sid runs: one heartbeat frame is    *)
(* written on the session's response (dropped once the connection has      *)
(* closed).                                                                *)
Heartbeat(sid) ==
    /\ sid \in heartbeat
    /\ Len(SelectSeq(stream[sid], LAMBDA fr : fr.event = "heartbeat")) < MaxHeartbeats
    /\ stream' = IF sid \in DOMAIN sessions
                 THEN [stream EXCEPT ![sid] =
                          Append(@, [event |-> "heartbeat", req |-> 0, id |-> Null])]
                 ELSE stream
    /\ UNCHANGED <<pluginVars, shutdown, heartbeat, now, sessions, nextSession, wsState, clientIdOf, figmaClients,
                   listeners, wsOut, requests, out, sendLog, timers, fetching>>

SessionClose(sid) ==
    /\ sid \in DOMAIN sessions
    /\ sessions' = SessionsDelete(sessions, sid)
    /\ heartbeat' = clearInterval(heartbeat, sid)
    /\ UNCHANGED <<pluginVars, shutdown, now, nextSession, stream, wsState, clientIdOf, figmaClients, listeners,
                   wsOut, requests, out, sendLog, timers, fetching>>

(* ---------------------------------------------------------------------- *)
(* Protocol front end: POST /message                                       *)
(* ---------------------------------------------------------------------- *)
(* The value an argument has when the agent gives one and the model does   *)
(* not vary it.                                                            *)
Default(k) ==
    CASE k = "a" -> 2
      [] k = "b" -> 3
      [] k = "fontSize" -> 12
      [] k = "iconName" -> "home"
      [] k = "fontFamily" -> "Roboto"
      [] k = "resizeMode" -> "FIXED"
      [] k = "color" -> "{r:1,g:0,b:0}"
      [] OTHER -> "<" \o k \o ">"

(* args: the arguments whose value is truthy (the handlers test !args.x);  *)
(* vals: the value of each argument that params.arguments carries.         *)
Rpc(present, jsonrpc, id, method, name, args) ==
    [present |-> present, jsonrpc |-> jsonrpc, id |-> id, method |-> method,
     name |-> name, args |-> args, vals |-> [k \in args |-> Default(k)]]

NumberArgs == {"a", "b", "fontSize"}

(* JavaScript truthiness of an argument's value: a number other than 0, a  *)
(* string other than "", any object.                                       *)
Truthy(k, v) == IF k \in NumberArgs THEN v # 0 ELSE v # ""

(* args.k, undefined when the argument is not given. *)
ArgValue(rpc, k) == IF k \in DOMAIN rpc.vals THEN rpc.vals[k] ELSE Absent

(* Variant that substitutes the default only for an argument not given. *)
OrElse_AbsentOnly(rpc, k, d) == IF k \in DOMAIN rpc.vals THEN rpc.vals[k] ELSE d

(* args.k || d *)
OrElse(rpc, k, d) ==
    IF k \in DOMAIN rpc.vals /\ Truthy(k, rpc.vals[k]) THEN rpc.vals[k] ELSE d

(* The keys of the LUCIDE_ICONS object literal. *)
LUCIDE_ICONS ==
    {"activity", "alert-circle", "archive", "arrow-right", "bell",
     "calendar", "check", "chevron-down", "chevron-left", "chevron-right",
     "chevron-up", "clipboard", "clock", "copy", "download", "edit",
     "external-link", "file-text", "filter", "heart", "home", "image",
     "link", "mail", "menu", "minus", "more-horizontal", "more-vertical",
     "plus", "search", "settings", "square-x", "trash", "upload", "user",
     "x"}

SvgOf(name) == "<svg lucide-" \o name \o ">"

(* Property names every object inherits from Object.prototype. *)
ObjectPrototypeKeys == {"constructor", "toString", "valueOf", "hasOwnProperty"}

(* LUCIDE_ICONS[name]: the SVG of an own key, the inherited member of      *)
(* Object.prototype (a function) for an inherited key, undefined otherwise. *)
Lookup(name) ==
    IF name \in LUCIDE_ICONS THEN SvgOf(name)
    ELSE IF name \in ObjectPrototypeKeys THEN "[Function]"
    ELSE Absent

(* fallbackUsed: !svgDataToSend after the lookup of args.iconName. *)
FallbackUsed(rpc) == Lookup(ArgValue(rpc, "iconName")) = Absent

iconNameToUse(rpc) == IF FallbackUsed(rpc) THEN "square-x" ELSE ArgValue(rpc, "iconName")

svgDataToSend(rpc) == Lookup(iconNameToUse(rpc))

(* JSON.stringify leaves out a member whose value is a function. *)
Stringify(v) == IF v = "[Function]" THEN Absent ELSE v

(* The members of the operation object a branch passes to                  *)
(* sendOperationToPlugin, for the branches whose members the model tells   *)
(* apart.                                                                  *)
OpData(rpc) ==
    CASE rpc.name = "figma.createRectangle" ->
            [position |-> ArgValue(rpc, "position"),
             size |-> ArgValue(rpc, "size"),
             color |-> OrElse(rpc, "color", "{r:0.8,g:0.8,b:0.8}")]
      [] rpc.name = "figma.createText" ->
            [text |-> ArgValue(rpc, "text"),
             position |-> ArgValue(rpc, "position"),
             fontSize |-> OrElse(rpc, "fontSize", 24),
             color |-> OrElse(rpc, "color", "{r:0,g:0,b:0}"),
             fontFamily |-> OrElse(rpc, "fontFamily", "Inter"),
             resizeMode |-> OrElse(rpc, "resizeMode", "AUTO_WIDTH")]
      [] rpc.name = "figma.createIcon" ->
            [iconName |-> iconNameToUse(rpc),
             svgData |-> Stringify(svgDataToSend(rpc)),
             position |-> ArgValue(rpc, "position")]
      [] OTHER -> << >>

(* The operation as it goes out on a socket for request r. *)
Operation(rpc, r) == [type |-> OpTag(rpc.name), req |-> r, data |-> OpData(rpc)]

(* Variant that joins the two numbers as strings. *)
SumText_Concat(rpc) ==
    "Sum of " \o ToString(ArgValue(rpc, "a")) \o " + " \o ToString(ArgValue(rpc, "b"))
        \o " = " \o ToString(ArgValue(rpc, "a")) \o ToString(ArgValue(rpc, "b"))

(* `Sum of ${args.a} + ${args.b} = ${sum}` with                            *)
(* sum = (args.a || 0) + (args.b || 0), for numbers.                       *)
SumText(rpc) ==
    LET show(k) == IF k \in DOMAIN rpc.vals THEN ToString(rpc.vals[k]) ELSE Absent
    IN "Sum of " \o show("a") \o " + " \o show("b") \o " = "
          \o ToString(OrElse(rpc, "a", 0) + OrElse(rpc, "b", 0))

(* successText of handleIconCreation. *)
IconSuccessText(rpc) ==
    IF FallbackUsed(rpc)
    THEN "Icon '" \o ArgValue(rpc, "iconName") \o "' not found. Created fallback '"
            \o iconNameToUse(rpc) \o "' icon instead"
    ELSE "Successfully created '" \o iconNameToUse(rpc) \o "' icon"

(* Variant that reads the header before the query parameter. *)
SessionIdOf_HeaderFirst(q, h) == IF h # 0 THEN h ELSE q

(* req.query.sessionId || req.header('X-Figma-MCP-SessionId'); 0 is absent *)
SessionIdOf(q, h) == IF q # 0 THEN q ELSE h

(* !rpc || rpc.jsonrpc !== "2.0" || !rpc.method, negated *)
WellFormed(rpc) == rpc.present /\ rpc.jsonrpc = "2.0" /\ rpc.method # Absent

(* Variant without the `?? null`: an absent id stays undefined. *)
RecoveredId_Undefined(rpc) == rpc.id

(* rpc?.id ?? null *)
RecoveredId(rpc) == IF rpc.present /\ rpc.id # NoId THEN rpc.id ELSE Null

(* Variant without the sessions.has(sessionId) test. *)
HttpResponse_NoSessionCheck(q, h, rpc, reg) ==
    IF SessionIdOf(q, h) = 0 THEN HttpPlain(400)
    ELSE IF ~WellFormed(rpc) THEN HttpRpcError(RecoveredId(rpc))
    ELSE HttpAck(rpc.id)

(* The HTTP response of the handler. *)
HttpResponse(q, h, rpc, reg) ==
    IF SessionIdOf(q, h) = 0 THEN HttpPlain(400)
    ELSE IF SessionIdOf(q, h) \notin DOMAIN reg THEN HttpPlain(404)
    ELSE IF ~WellFormed(rpc) THEN HttpRpcError(RecoveredId(rpc))
    ELSE HttpAck(rpc.id)

(* Array.from(figmaClients.values())[0]; 0 when the pool is empty *)
FirstClient(pool) == IF Len(pool) > 0 THEN pool[1].ws ELSE 0

(* A tools/call that passes its branch's argument check. *)
Runs(rpc) == rpc.method = "tools/call" /\ ~ArgsRejected(rpc.name, rpc.args)

(* The tools/call branches that call sendOperationToPlugin. *)
Broadcasts(rpc) == Runs(rpc) /\ rpc.name \in ReportTools \cup AwaitTools

(* The delay, in milliseconds, each branch passes to setTimeout. *)
TimeoutMs(tool) ==
    CASE tool = "figma.selectNode" -> 5000
      [] tool = "figma.listNodes" -> 5000
      [] tool = "figma.deleteNode" -> 5000
      [] tool = "figma.moveNode" -> 5000
      [] tool = "figma.createIcon" -> 5000
      [] tool = "figma.createBorderBox" -> 5000
      [] tool = "figma.drawLine" -> 5000
      [] OTHER -> 0

(* The `message` field of the error the else branch of `if (ws)` writes. *)
NoConnection(tool) ==
    IF tool = "figma.listNodes" THEN "No Figma plugin connected" ELSE "No Figma connection"

(* Variant in which the else branch of `if (ws)` leaves the timer armed. *)
ArmsTimer_NoClear(rpc, pool) == Runs(rpc) /\ rpc.name \in AwaitTools

(* Variant in which only the ws.once branches arm a timer. *)
ArmsTimer_OnceOnly(rpc, pool) ==
    Runs(rpc) /\ rpc.name \in AwaitOnce /\ FirstClient(pool) # 0

(* The tools/call branches that leave a setTimeout armed when they return. *)
ArmsTimer(rpc, pool) ==
    /\ Runs(rpc)
    /\ \/ rpc.name \in AwaitOn
       \/ rpc.name \in AwaitOnce /\ FirstClient(pool) # 0

(* Variant in which every branch that broadcasts also listens, with ws.on  *)
(* on every pool entry.                                                    *)
ListensOn_ReportToo(rpc, pool) ==
    IF ~Runs(rpc) THEN {}
    ELSE IF rpc.name \in AwaitOnce
         THEN (IF FirstClient(pool) # 0 THEN {FirstClient(pool)} ELSE {})
    ELSE MapSockets(pool)

(* The sockets the branch attaches its 'message' listener to: ws.once on   *)
(* the first pool entry, or ws.on on every pool entry.                     *)
ListensOn(rpc, pool) ==
    IF ~Runs(rpc) THEN {}
    ELSE IF rpc.name \in AwaitOnce
         THEN (IF FirstClient(pool) # 0 THEN {FirstClient(pool)} ELSE {})
    ELSE IF rpc.name \in AwaitOn THEN MapSockets(pool)
    ELSE {}

(* The identity of a listener function.  handleX.bind(null, clientId, ws)  *)
(* returns a new function object on every call: the object registered with *)
(* ws.on is bind number 0, and every later bind call yields another one.   *)
Listener(r, bind) == [req |-> r, bind |-> bind]
Registered(r) == Listener(r, 0)
FreshBind(r) == Listener(r, 1)

(* emitter.removeListener(event, fn): removes fn if it is registered. *)
removeListener(ls, fn) == ls \ {fn}

(* Variant whose default branch writes nothing. *)
MethodNotRecognized_Silent(rpc) == << >>

(* The default branch of switch (rpc.method). *)
MethodNotRecognized(rpc) == <<SseError(rpc.id, MethodNotFound, "Method not recognized")>>

(* The `message` events the handler writes before it returns. *)
SyncReply(rpc, pool) ==
    CASE rpc.method = "initialize" -> <<SseResult(rpc.id, "initCaps")>>
      [] rpc.method = "tools/list" ->
            <<[SseResult(rpc.id, "tools") EXCEPT !.data = <<ToolsListResult>>]>>
      [] rpc.method = "notifications/initialized" -> << >>
      [] rpc.method = "tools/call" ->
            IF rpc.name = "addNumbersTool"
            THEN <<[SseResult(rpc.id, "sum") EXCEPT !.data = <<SumText(rpc)>>]>>
            ELSE IF rpc.name \notin Catalog
                 THEN <<SseError(rpc.id, MethodNotFound, "Tool not implemented")>>
            ELSE IF ArgsRejected(rpc.name, rpc.args)
                 THEN <<SseError(rpc.id, InvalidParams, "Invalid params")>>
            ELSE IF rpc.name \in ReportTools
                 THEN <<SseResult(rpc.id, "operation sent to plugin")>>
            ELSE IF rpc.name \in AwaitOnce /\ FirstClient(pool) = 0
                 THEN <<SseError(rpc.id, InternalError, NoConnection(rpc.name))>>
            ELSE << >>
      [] OTHER -> MethodNotRecognized(rpc)

WriteAll(st, open, sid, r, evs) ==
    IF Len(evs) = 0 THEN st ELSE WriteSse(st, open, sid, r, evs[1].id)

(* Variant that writes the `message` events before the HTTP response. *)
Respond_ReplyFirst(http, reply) == reply \o <<http>>

(* What the handler emits for one request, in order: res.json(...) comes   *)
(* before the switch on rpc.method and its sseRes.write calls.             *)
Respond(http, reply) == <<http>> \o reply

(* Variant of the initialize branch that leaves the flag as it is. *)
Initialize_NoFlag(reg, sid) == reg

(* sessionData.initialized = true *)
Initialize(reg, sid) == [reg EXCEPT ![sid].initialized = TRUE]

PostMessage(q, h, rpc, bad) ==
    /\ LET r == Len(requests) + 1
           sid == SessionIdOf(q, h)
           http == HttpResponse(q, h, rpc, sessions)
           accepted == http.kind = "ack"
           reply == IF accepted THEN SyncReply(rpc, figmaClients) ELSE << >>
           attempts == IF accepted /\ Broadcasts(rpc)
                       THEN sendOperationToPlugin(figmaClients, bad) ELSE << >>
           attach == IF accepted THEN ListensOn(rpc, figmaClients) ELSE {}
       IN
        /\ requests' = Append(requests, [sid |-> sid, rpc |-> rpc])
        /\ out' = Append(out, Respond(http, reply))
        /\ stream' = WriteAll(stream, DOMAIN sessions, sid, r, reply)
        /\ sessions' = IF accepted /\ rpc.method = "initialize" /\ sid \in DOMAIN sessions
                       THEN Initialize(sessions, sid)
                       ELSE sessions
        /\ sendLog' = Append(sendLog, attempts)
        /\ wsOut' = [w \in Sockets |->
                        IF w \in Delivered(attempts)
                        THEN Append(wsOut[w], Operation(rpc, r))
                        ELSE wsOut[w]]
        /\ timers' = IF accepted /\ ArmsTimer(rpc, figmaClients)
                     THEN timers \cup {r} ELSE timers
        /\ listeners' = [w \in Sockets |->
                        IF w \in attach THEN listeners[w] \cup {Registered(r)}
                        ELSE listeners[w]]
        /\ fetching' = IF accepted /\ Runs(rpc) /\ rpc.name = "figma.getFile"
                       THEN fetching \cup {r} ELSE fetching
    /\ UNCHANGED <<pluginVars, shutdown, heartbeat, now, nextSession, wsState, clientIdOf, figmaClients>>

(* The fetch of figma.getFile returns: a result, or -32603 when it failed. *)
FetchReturn(r, ok) ==
    /\ r \in fetching
    /\ fetching' = fetching \ {r}
    /\ LET rpc == requests[r].rpc
           sid == requests[r].sid
           ev == IF ok THEN SseResult(rpc.id, "file")
                 ELSE SseError(rpc.id, InternalError, "Failed to fetch Figma file")
       IN /\ out' = [out EXCEPT ![r] = Append(@, ev)]
          /\ stream' = WriteSse(stream, DOMAIN sessions, sid, r, rpc.id)
    /\ UNCHANGED <<pluginVars, shutdown, heartbeat, now, sessions, nextSession, wsState, clientIdOf, figmaClients,
                   listeners, wsOut, requests, sendLog, timers>>

(* ---------------------------------------------------------------------- *)
(* Response correlator: the per-call 'message' listeners and timers        *)
(* ---------------------------------------------------------------------- *)
Completed(f, op) == f.type = "operation-completed" /\ f.originalOperation = op

(* Variant that takes no frame for an operation-error. *)
Failed_Never(f, op) == FALSE

Failed(f, op) == f.type = "operation-error" /\ f.originalOperation = op

(* Variant that never recognises the text. *)
IncludesNotFound_Never(e) == FALSE

(* data.error.includes("not found") *)
IncludesNotFound(e) == e \in {"Node not found"}

Guidance == "Please try these steps: 1. Use figma.listNodes to get valid node IDs"

(* The branch of the listener's if / else-if chain a parsed frame takes:   *)
(* "success", "error" or "none".                                           *)
Match(tool, f) ==
    CASE tool = "figma.selectNode" ->
            IF Completed(f, "select-node") THEN "success"
            ELSE IF Failed(f, "select-node") THEN "error" ELSE "none"
      [] tool = "figma.listNodes" ->
            IF f.type = "nodes-list" THEN "success"
            ELSE IF Failed(f, "list-nodes") THEN "error" ELSE "none"
      [] tool = "figma.deleteNode" ->
            IF Completed(f, "delete-node") THEN "success"
            ELSE IF f.type = "nodes-deleted" THEN "success"
            ELSE IF Failed(f, "delete-node") THEN "error" ELSE "none"
      [] tool = "figma.moveNode" ->
            IF f.type = "nodes-moved" THEN "success"
            ELSE IF Failed(f, "move-node") THEN "error"
            ELSE IF Completed(f, "move-node") THEN "success" ELSE "none"
      [] tool = "figma.createIcon" ->
            IF Completed(f, "create-icon") THEN "success"
            ELSE IF Failed(f, "create-icon") THEN "error" ELSE "none"
      [] tool = "figma.createBorderBox" ->
            IF Completed(f, "create-border-box") THEN "success"
            ELSE IF Failed(f, "create-border-box") THEN "error" ELSE "none"
      [] tool = "figma.drawLine" ->
            IF Completed(f, "draw-line") THEN "success"
            ELSE IF Failed(f, "draw-line") THEN "error" ELSE "none"
      [] OTHER -> "none"

(* The listeners whose catch block clears the timer on a JSON.parse error. *)
ClearsOnParseError(tool) == tool \in {"figma.createIcon", "figma.drawLine"}

(* The `data` of the error a call's listener forwards: data.error, with    *)
(* the guidance appended by selectNode, or deleteNode's                     *)
(* data.error || "Failed to delete node(s)".                               *)
ErrorData(tool, e) ==
    IF tool = "figma.selectNode" /\ e # "" /\ IncludesNotFound(e) THEN <<e, Guidance>>
    ELSE IF tool = "figma.deleteNode" /\ e = "" THEN <<"Failed to delete node(s)">>
    ELSE <<e>>

(* The `message` events a call's listener writes for one frame. *)
ListenerReply(rpc, f) ==
    IF f = Malformed THEN << >>
    ELSE IF Match(rpc.name, f) = "success"
         THEN <<[SseResult(rpc.id, "success") EXCEPT !.data =
                    IF rpc.name = "figma.createIcon" THEN <<IconSuccessText(rpc)>> ELSE << >>]>>
    ELSE IF Match(rpc.name, f) = "error"
         THEN <<[SseError(rpc.id, InternalError, "Operation failed") EXCEPT !.data =
                    ErrorData(rpc.name, f.error)]>>
    ELSE << >>

(* Whether the listener calls clearTimeout(timeout) for the frame. *)
ListenerClears(rpc, f) ==
    IF f = Malformed THEN ClearsOnParseError(rpc.name)
    ELSE Match(rpc.name, f) # "none"

(* Variant in which ws.once behaves as ws.on: the listener stays. *)
AfterListener_OnceStays(ls, l, rpc, f) == ls

(* The listeners of socket w after listener l has handled the frame: a     *)
(* once-listener is detached before it runs; the others call               *)
(* ws.removeListener('message', handler.bind(null, clientId, ws)) on a     *)
(* match (createIcon and drawLine also in their catch block).              *)
AfterListener(ls, l, rpc, f) ==
    IF rpc.name \in AwaitOnce THEN removeListener(ls, l)
    ELSE IF f = Malformed
         THEN (IF ClearsOnParseError(rpc.name) THEN removeListener(ls, FreshBind(l.req)) ELSE ls)
    ELSE IF Match(rpc.name, f) # "none" THEN removeListener(ls, FreshBind(l.req))
    ELSE ls

RECURSIVE Ascending(_)
Ascending(S) ==
    IF S = {} THEN << >>
    ELSE LET m == CHOOSE x \in S : \A y \in S : x <= y
         IN <<m>> \o Ascending(S \ {m})

RECURSIVE WriteReplies(_, _, _, _)
WriteReplies(st, open, rs, f) ==
    IF Len(rs) = 0 THEN st
    ELSE LET r == Head(rs)
             rq == requests[r]
         IN WriteReplies(
                WriteAll(st, open, rq.sid, r, ListenerReply(rq.rpc, f)),
                open, Tail(rs), f)

RECURSIVE DetachAll(_, _, _)
DetachAll(ls, rs, f) ==
    IF Len(rs) = 0 THEN ls
    ELSE DetachAll(AfterListener(ls, Registered(Head(rs)), requests[Head(rs)].rpc, f), Tail(rs), f)

(* Variant without the try/catch: the parse error tears the socket down. *)
OnMessage_Throws(st, f) == IF f = Malformed THEN "closed" ELSE st

(* The connection's own 'message' handler: it parses the frame and logs    *)
(* it by type; a parse error is caught and logged.  The socket's state is  *)
(* what it was.                                                            *)
OnMessage(st, f) == st

(* A frame arrives on plugin socket w: the connection's own handler parses *)
(* and logs it (a parse error is caught), then each call listener attached *)
(* to w runs, in the order of attachment.  A frame on a socket without a   *)
(* call listener is only logged, which leaves the state as it is.          *)
PluginMessage(w, f) ==
    /\ wsState[w] = "open"
    /\ listeners[w] # {}
    /\ LET heard == {l.req : l \in listeners[w]}
       IN /\ \A r \in heard : Len(out[r]) <= MaxReplies
          /\ out' = [r \in DOMAIN out |->
                        IF r \in heard THEN out[r] \o ListenerReply(requests[r].rpc, f)
                        ELSE out[r]]
          /\ timers' = timers \ {r \in heard : ListenerClears(requests[r].rpc, f)}
          /\ stream' = WriteReplies(stream, DOMAIN sessions, Ascending(heard), f)
          /\ listeners' = [listeners EXCEPT ![w] = DetachAll(@, Ascending(heard), f)]
    /\ wsState' = [wsState EXCEPT ![w] = OnMessage(@, f)]
    /\ UNCHANGED <<pluginVars, shutdown, heartbeat, now, sessions, nextSession, clientIdOf, figmaClients, wsOut,
                   requests, sendLog, fetching>>

(* The listeners the timeout callback removes: createIcon and drawLine     *)
(* call ws.removeListener with a new bind for every pool entry.            *)
AfterTimeout(ls, r, rpc, pool) ==
    IF rpc.name \in {"figma.createIcon", "figma.drawLine"}
    THEN [w \in Sockets |->
            IF w \in MapSockets(pool) THEN removeListener(ls[w], FreshBind(r)) ELSE ls[w]]
    ELSE ls

(* The setTimeout callback of a call runs: it writes the timeout error. *)
Timeout(r) ==
    /\ r \in timers
    /\ timers' = timers \ {r}
    /\ LET rq == requests[r] IN
        /\ out' = [out EXCEPT ![r] =
                      Append(@, SseError(rq.rpc.id, InternalError, "Operation timeout"))]
        /\ stream' = WriteSse(stream, DOMAIN sessions, rq.sid, r, rq.rpc.id)
        /\ listeners' = AfterTimeout(listeners, r, rq.rpc, figmaClients)
    /\ UNCHANGED <<pluginVars, shutdown, heartbeat, now, sessions, nextSession, wsState, clientIdOf, figmaClients, wsOut,
                   requests, sendLog, fetching>>

(* ---------------------------------------------------------------------- *)
(* The requests an agent may post                                          *)
(* ---------------------------------------------------------------------- *)
ToolNames == Catalog \cup {"figma.unknownTool"}

CallEnvelopes(id, tools) ==
    UNION {{Rpc(TRUE, "2.0", id, "tools/call", t, a) :
                a \in SUBSET (Required(t) \cup Tested(t))} : t \in tools}

MalformedEnvelopes(id) ==
    {Rpc(FALSE, Absent, NoId, Absent, Absent, {})}
    \cup {Rpc(TRUE, "1.0", i, "initialize", Absent, {}) : i \in {id, NoId}}
    \cup {Rpc(TRUE, "2.0", i, Absent, Absent, {}) : i \in {id, NoId}}

MethodEnvelopes(id) ==
    {Rpc(TRUE, "2.0", id, m, Absent, {}) :
        m \in {"initialize", "tools/list", "notifications/initialized", "resources/list"}}
    \cup {Rpc(TRUE, "2.0", NoId, m, Absent, {}) :
                m \in {"notifications/initialized", "resources/list"}}

(* The agent numbers its requests: the id of its n-th request is n. *)
Envelopes(id) == MalformedEnvelopes(id) \cup MethodEnvelopes(id) \cup CallEnvelopes(id, ToolNames)

(* Nothing is left to happen to the requests posted so far. *)
Settled == timers = {} /\ fetching = {} /\ \A w \in Sockets : listeners[w] = {}

(* The plugins and the agent's streams come and go until the requests have *)
(* been posted and nothing of them is pending.                             *)
Running == Len(requests) < MaxRequests \/ ~Settled

(* Requests of any shape are followed from the state the plugins and the   *)
(* agent's streams are in when they arrive until nothing is pending.       *)
Next ==
    \/ \E dt \in {0, 1} : Running /\ PluginConnect(dt)
    \/ \E w \in Sockets : Running /\ PluginClose(w)
    \/ Running /\ SessionOpen
    \/ \E sid \in SessionIds : Running /\ SessionClose(sid)
    \/ \E q \in 0..MaxSessions, h \in 0..MaxSessions,
          rpc \in Envelopes(Len(requests) + 1),
          bad \in SUBSET MapSockets(figmaClients) :
            /\ Len(requests) < MaxRequests
            /\ bad # {} => Broadcasts(rpc)
            /\ PostMessage(q, h, rpc, bad)
    \/ \E r \in DOMAIN requests, ok \in BOOLEAN : FetchReturn(r, ok)
    \/ \E w \in Sockets, f \in PluginFrames : PluginMessage(w, f)
    \/ \E r \in DOMAIN requests : Timeout(r)

Spec == Init /\ [][Next]_vars

(* The stream protocol on its own: streams open and close, their          *)
(* heartbeats run, and the agent posts envelopes that call no tool.        *)
StreamEnvelopes(id) ==
    {Rpc(TRUE, "2.0", id, "initialize", Absent, {}), Rpc(FALSE, Absent, NoId, Absent, Absent, {})}

StreamNext ==
    \/ SessionOpen
    \/ \E sid \in SessionIds : SessionClose(sid)
    \/ \E sid \in SessionIds : Heartbeat(sid)
    \/ \E q \in 0..MaxSessions, rpc \in StreamEnvelopes(Len(requests) + 1) :
            Len(requests) < MaxRequests /\ PostMessage(q, 0, rpc, {})

StreamSpec == Init /\ [][StreamNext]_vars

(* Two requests in a row, or overlapping: the agent initializes, lists the *)
(* tools and calls the fire-and-report tools and two await-confirmation    *)
(* tools (one ws.once, one ws.on) with valid arguments, while the plugins  *)
(* answer and the timers run.                                              *)
OverlapTools == ReportTools \cup {"figma.selectNode", "figma.drawLine"}

OverlapEnvelopes(id) ==
    {Rpc(TRUE, "2.0", id, m, Absent, {}) : m \in {"initialize", "tools/list"}}
    \cup {Rpc(TRUE, "2.0", id, "tools/call", t, Required(t) \cup Tested(t)) : t \in OverlapTools}

OverlapFrames ==
    {Frame("plugin-ready", "", "")}
    \cup {Frame("operation-completed", OpTag(t), "") : t \in OverlapTools}
    \cup {Frame("operation-error", OpTag(t), "failed") : t \in OverlapTools}

OverlapNext ==
    \/ SessionOpen
    \/ PluginConnect(1)
    \/ \E q \in SessionIds, rpc \in OverlapEnvelopes(Len(requests) + 1) :
            Len(requests) < MaxOverlap /\ PostMessage(q, 0, rpc, {})
    \/ \E w \in Sockets, f \in OverlapFrames : PluginMessage(w, f)
    \/ \E r \in DOMAIN requests : Timeout(r)

OverlapSpec == Init /\ [][OverlapNext]_vars

(* One tools/call whose argument values vary: the numbers of               *)
(* addNumbersTool, the optional color, fontFamily and resizeMode of        *)
(* createRectangle and createText, the icon name of createIcon.            *)
WithArg(base, k, vs) == base \cup {b @@ (k :> x) : b \in base, x \in vs}

NumberVals == [{"a", "b"} -> {-3, 0, 2}] \cup [{"b"} -> {2}]

RectangleVals ==
    WithArg({[position |-> "{x:10,y:20}", size |-> "{width:5,height:5}"]},
            "color", {"{r:0,g:1,b:0}"})

TextVals ==
    WithArg(WithArg(WithArg({[text |-> "Hello", position |-> "{x:10,y:20}"]},
                            "color", {"{r:0,g:1,b:0}"}),
                    "fontFamily", {"", "Roboto"}),
            "resizeMode", {"", "FIXED"})

IconVals ==
    {[iconName |-> n, position |-> "{x:10,y:20}"] :
        n \in {"home", "square-x", "no-such-icon", "constructor"}}

ValueCall(id, tool, v) ==
    [Rpc(TRUE, "2.0", id, "tools/call", tool, {k \in DOMAIN v : Truthy(k, v[k])})
        EXCEPT !.vals = v]

ValueEnvelopes(id) ==
    {ValueCall(id, "addNumbersTool", v) : v \in NumberVals}
    \cup {ValueCall(id, "figma.createRectangle", v) : v \in RectangleVals}
    \cup {ValueCall(id, "figma.createText", v) : v \in TextVals}
    \cup {ValueCall(id, "figma.createIcon", v) : v \in IconVals}

ValueFrames ==
    {Frame("plugin-ready", "", ""), Frame("operation-completed", "create-icon", ""),
     Frame("operation-error", "create-icon", "failed")}

ValueNext ==
    \/ SessionOpen
    \/ PluginConnect(1)
    \/ \E q \in SessionIds, rpc \in ValueEnvelopes(Len(requests) + 1) :
            Len(requests) < MaxRequests /\ PostMessage(q, 0, rpc, {})
    \/ \E w \in Sockets, f \in ValueFrames : PluginMessage(w, f)
    \/ \E r \in DOMAIN requests : Timeout(r)

ValueSpec == Init /\ [][ValueNext]_vars

(* Variant of the loop that ends after its first deletion. *)
DeleteAll_FirstOnly(reg, ids) ==
    IF Len(ids) = 0 THEN reg ELSE SessionsDelete(reg, Head(ids))

(* for (const [sessionId, session] of sessions.entries())                  *)
(*     sessions.delete(sessionId): a Map iterator goes on to the entries   *)
(* that remain after a deletion.                                           *)
RECURSIVE DeleteAll(_, _)
DeleteAll(reg, ids) ==
    IF Len(ids) = 0 THEN reg ELSE DeleteAll(SessionsDelete(reg, Head(ids)), Tail(ids))

(* process.on('SIGINT'): the sessions are deleted from the registry, the   *)
(* WebSocket server is closed, the process exits.  Timers and listeners of *)
(* pending calls are not looked at; they end with the process.             *)
Sigint ==
    /\ shutdown = << >>
    /\ LET ids == Ascending(DOMAIN sessions)
       IN /\ sessions' = DeleteAll(sessions, ids)
          /\ shutdown' = [i \in 1..Len(ids) |-> "sessions.delete"]
                            \o <<"wss.close", "process.exit">>
    /\ UNCHANGED <<pluginVars, now, nextSession, stream, wsState, clientIdOf, figmaClients, listeners,
                   wsOut, requests, out, sendLog, timers, fetching, heartbeat>>

(* The process runs until the interrupt signal: sessions and plugins       *)
(* connect, the agent posts one await-confirmation call, the plugin        *)
(* answers or the timer fires, and at any moment SIGINT ends it.           *)
ShutdownEnvelopes(id) ==
    {Rpc(TRUE, "2.0", id, "tools/call", t, Required(t)) :
        t \in {"figma.selectNode", "figma.moveNode"}}
    \cup {Rpc(TRUE, "2.0", id, "initialize", Absent, {})}

ShutdownNext ==
    \/ Sigint
    \/ shutdown = << >> /\ SessionOpen
    \/ shutdown = << >> /\ PluginConnect(1)
    \/ \E q \in SessionIds, rpc \in ShutdownEnvelopes(Len(requests) + 1) :
            shutdown = << >> /\ Len(requests) < MaxRequests /\ PostMessage(q, 0, rpc, {})
    \/ \E w \in Sockets :
            shutdown = << >> /\ PluginMessage(w, Frame("operation-completed", "move-node", ""))
    \/ \E r \in DOMAIN requests : shutdown = << >> /\ Timeout(r)

ShutdownSpec == Init /\ [][ShutdownNext]_vars

(* The event loop runs a timer callback that is due, and a fetch returns. *)
FairSpec ==
    /\ Spec
    /\ \A r \in 1..MaxRequests : WF_vars(Timeout(r))
    /\ \A r \in 1..MaxRequests : WF_vars(\E ok \in BOOLEAN : FetchReturn(r, ok))

(* ---------------------------------------------------------------------- *)
(* Vocabulary of the properties                                            *)
(* ---------------------------------------------------------------------- *)
SseEvents(r) == SelectSeq(out[r], LAMBDA e : e.ch = "sse")
Acked(r) == out[r][1].kind = "ack"
FramesOf(r) == SelectSeq(stream[requests[r].sid], LAMBDA fr : fr.req = r)

(* The envelope is a JSON-RPC 2.0 request: a body, jsonrpc "2.0", a method. *)
IsEnvelope(rpc) == rpc.present /\ rpc.jsonrpc = "2.0" /\ rpc.method # Absent

(* An acknowledged tools/call of an await-confirmation tool that carries   *)
(* every required argument.                                                *)
AwaitCall(r) ==
    /\ Acked(r)
    /\ requests[r].rpc.method = "tools/call"
    /\ requests[r].rpc.name \in AwaitTools
    /\ Required(requests[r].rpc.name) \subseteq requests[r].rpc.args

(* The step is the handling of one POST /message. *)
PostStep == Len(requests') = Len(requests) + 1

(* ---------------------------------------------------------------------- *)
(* Properties                                                              *)
(* ---------------------------------------------------------------------- *)

(* The `message` events of request r that answer a plugin frame (the       *)
(* events other than the timeout error).                                   *)
PluginAnswers(r) ==
    SelectSeq(out[r], LAMBDA e : e.ch = "sse" /\ e.tag # "Operation timeout")

(* C1: an await-confirmation tools/call (selectNode, listNodes, deleteNode, *)
(* moveNode, createIcon, createBorderBox, drawLine) gets one terminal      *)
(* `message` event: however many qualifying plugin messages arrive         *)
(* (nodes-moved and then operation-completed for move-node, for instance), *)
(* no more than one of them is answered by a `message` event.              *)
C1_AtMostOneTerminalEvent ==
    \A r \in DOMAIN requests : AwaitCall(r) => Len(PluginAnswers(r)) <= 1

(* C2: every pending await-confirmation call resolves: whatever frames the *)
(* plugins send (matching, non-matching, malformed, none) and whenever     *)
(* they disconnect, a terminal `message` event is eventually written.      *)
C2_EveryCallResolves ==
    \A r \in 1..MaxRequests :
        (r \in DOMAIN requests /\ AwaitCall(r)) ~> (r \in DOMAIN requests /\ Len(SseEvents(r)) >= 1)

(* C3: once a call has its terminal response (in particular the timeout    *)
(* error), a late or duplicate plugin message for its operation changes    *)
(* nothing: no further event is written for the call.                      *)
C3_LateMessagesIgnored ==
    [][\A r \in DOMAIN requests :
          (AwaitCall(r) /\ Len(SseEvents(r)) >= 1) =>
              (out'[r] = out[r] /\ FramesOf(r)' = FramesOf(r))]_vars

(* C4: a tools/call of a catalog tool that omits an argument the tool's    *)
(* descriptor lists as required gets exactly one error, code -32602, and   *)
(* causes no broadcast, no timer and no listener.                          *)
C4_MissingRequiredRejected ==
    \A r \in DOMAIN requests :
        LET rpc == requests[r].rpc IN
        (/\ Acked(r)
         /\ rpc.method = "tools/call"
         /\ rpc.name \in Catalog
         /\ ~(Required(rpc.name) \subseteq rpc.args))
        => /\ Len(SseEvents(r)) = 1
           /\ SseEvents(r)[1].kind = "error"
           /\ SseEvents(r)[1].code = InvalidParams
           /\ sendLog[r] = << >>
           /\ r \notin timers
           /\ \A w \in Sockets : \A l \in listeners[w] : l.req # r

(* C5: a tools/call of a tool that needs the plugin, handled while the     *)
(* pool is empty, is never answered with a success result.                 *)
C5_EmptyPoolIsAnError ==
    [][PostStep =>
        LET r == Len(requests')
            rpc == requests'[r].rpc
        IN (/\ out'[r][1].kind = "ack"
            /\ rpc.method = "tools/call"
            /\ rpc.name \in ReportTools \cup AwaitTools
            /\ Required(rpc.name) \cup Tested(rpc.name) \subseteq rpc.args
            /\ figmaClients = << >>)
           => \A i \in 1..Len(out'[r]) : out'[r][i].kind # "result"]_vars

(* C6: the broadcast of one operation to a pool of N sockets makes exactly *)
(* N send attempts, one per pool entry in the pool's order; a send that    *)
(* throws neither stops the attempts on the other sockets nor removes its  *)
(* socket from the pool; each socket whose send went through got the       *)
(* operation once.                                                         *)
C6_BroadcastFanOut ==
    [][PostStep =>
        LET r == Len(requests')
            rpc == requests'[r].rpc
            att == sendLog'[r]
        IN (out'[r][1].kind = "ack" /\ Broadcasts(rpc)) =>
            /\ Len(att) = Len(figmaClients)
            /\ \A i \in 1..Len(att) : att[i].ws = figmaClients[i].ws
            /\ figmaClients' = figmaClients
            /\ \A w \in Sockets :
                IF \E i \in 1..Len(att) : att[i].ws = w /\ ~att[i].threw
                THEN wsOut'[w] = Append(wsOut[w], Operation(rpc, r))
                ELSE wsOut'[w] = wsOut[w]]_vars

(* C6 happens: a broadcast to two sockets whose first send threw reached   *)
(* the second socket.                                                      *)
C6_Witness ==
    \E r \in DOMAIN requests :
        /\ Len(sendLog[r]) = 2
        /\ sendLog[r][1].threw
        /\ ~sendLog[r][2].threw
        /\ \E i \in 1..Len(wsOut[sendLog[r][2].ws]) : wsOut[sendLog[r][2].ws][i].req = r
        /\ Len(figmaClients) = 2

(* C7 as stated: a POST /message is acknowledged if and only if its        *)
(* sessionId is the id of a session whose stream is open.                  *)
C7_AckedIffSessionOpen ==
    [][PostStep =>
        (out'[Len(requests')][1].kind = "ack"
            <=> requests'[Len(requests')].sid \in DOMAIN sessions)]_vars

(* The ids of the open sessions are distinct: each open session is the     *)
(* only holder of its id, which was handed out once.                       *)
SessionIdsDistinct ==
    \A sid \in DOMAIN sessions :
        /\ sid < nextSession
        /\ Len(SelectSeq(stream[sid], LAMBDA fr : fr.event = "endpoint")) = 1

(* C7: a POST /message that carries a JSON-RPC 2.0 envelope is             *)
(* acknowledged and dispatched if and only if its sessionId is the id of a *)
(* session whose stream is open (an envelope that is malformed is never    *)
(* acknowledged); two open sessions never share an id; a POST whose        *)
(* sessionId is absent, unknown or the id of a closed session is refused   *)
(* with 400 or 404 and writes to no stream, sends to no plugin and changes *)
(* no session.                                                             *)
C7_EnvelopeAckedIffSessionOpen ==
    /\ []SessionIdsDistinct
    /\ [][PostStep =>
            LET r == Len(requests')
                rq == requests'[r]
                known == rq.sid \in DOMAIN sessions
                acked == out'[r][1].kind = "ack"
            IN /\ IsEnvelope(rq.rpc) => (acked <=> known)
               /\ ~IsEnvelope(rq.rpc) => ~acked
               /\ (acked /\ rq.rpc.method \in {"initialize", "tools/list"}) =>
                        /\ Len(out'[r]) = 2
                        /\ Len(stream'[rq.sid]) = Len(stream[rq.sid]) + 1
               /\ ~acked => /\ Len(out'[r]) = 1
                            /\ sendLog'[r] = << >>
                            /\ stream' = stream /\ wsOut' = wsOut /\ sessions' = sessions
                            /\ timers' = timers /\ listeners' = listeners
               /\ ~known => out'[r][1] = HttpPlain(IF rq.sid = 0 THEN 400 ELSE 404)]_vars

(* C7 happens: a POST with the id of a session that has closed was refused *)
(* with 404 while another session was open.                                *)
C7_Witness ==
    \E r \in DOMAIN requests :
        /\ requests[r].sid \in SessionIds \ DOMAIN sessions
        /\ stream[requests[r].sid] # << >>
        /\ IsEnvelope(requests[r].rpc)
        /\ out[r] = <<HttpPlain(404)>>
        /\ DOMAIN sessions # {}

(* C8: removal is idempotent and touches its own entry only.  When a       *)
(* session closes, removing its id once more leaves the registry as it is  *)
(* and every other session keeps its entry; when a plugin socket closes,   *)
(* removing its client id once more leaves the pool as it is and every     *)
(* other socket that was in the pool is still in it.                       *)
C8_CloseRemovesOnlyOwnEntry ==
    [][/\ \A sid \in SessionIds :
            (sid \in DOMAIN sessions /\ sid \notin DOMAIN sessions') =>
                /\ SessionsDelete(sessions', sid) = sessions'
                /\ \A t \in DOMAIN sessions \ {sid} :
                        t \in DOMAIN sessions' /\ sessions'[t] = sessions[t]
       /\ \A w \in Sockets :
            (wsState[w] = "open" /\ wsState'[w] = "closed") =>
                /\ MapDelete(figmaClients', clientIdOf[w]) = figmaClients'
                /\ \A v \in Sockets \ {w} :
                        v \in MapSockets(figmaClients) => v \in MapSockets(figmaClients')]_vars

(* C9: for a POST with a known session and a JSON-RPC 2.0 envelope the     *)
(* HTTP acknowledgement carrying the request's id comes first; every       *)
(* `message` event written for the request carries that id; initialize and *)
(* tools/list get exactly one `message` event.                             *)
C9_AckThenEvents ==
    /\ [][PostStep =>
            LET r == Len(requests')
                rq == requests'[r]
            IN (rq.sid \in DOMAIN sessions /\ IsEnvelope(rq.rpc)) =>
                    out'[r][1] = HttpAck(rq.rpc.id)]_vars
    /\ [](\A r \in DOMAIN requests :
            LET rpc == requests[r].rpc IN
            Acked(r) =>
                /\ \A i \in 2..Len(out[r]) : out[r][i].ch = "sse" /\ out[r][i].id = rpc.id
                /\ \A i \in 1..Len(FramesOf(r)) : FramesOf(r)[i].id = rpc.id
                /\ rpc.method \in {"initialize", "tools/list"} =>
                        /\ Len(out[r]) = 2
                        /\ out[r][2].kind = "result"
                        /\ Len(FramesOf(r)) = 1)

(* C9 happens: an initialize request was acknowledged and then answered by *)
(* one `message` event on its session's stream.                            *)
C9_Witness ==
    \E r \in DOMAIN requests :
        /\ requests[r].rpc.method = "initialize"
        /\ out[r] = <<HttpAck(requests[r].rpc.id), SseResult(requests[r].rpc.id, "initCaps")>>
        /\ Len(FramesOf(r)) = 1
        /\ requests[r].sid \in DOMAIN sessions
        /\ sessions[requests[r].sid].initialized

(* C10: a malformed envelope (no body, jsonrpc other than "2.0", or no     *)
(* method) posted to a known session is answered in the HTTP response by   *)
(* the JSON-RPC error -32600 whose id is the envelope's id, or null when   *)
(* it has none; there is no acknowledgement, nothing is written to a       *)
(* stream, nothing is broadcast, and the initialized flag stays as it was. *)
C10_MalformedEnvelope ==
    [][PostStep =>
        LET r == Len(requests')
            rq == requests'[r]
            id == IF rq.rpc.present /\ rq.rpc.id # NoId THEN rq.rpc.id ELSE Null
        IN (rq.sid \in DOMAIN sessions /\ ~IsEnvelope(rq.rpc)) =>
            /\ out'[r] = <<Ev("http", 200, "error", InvalidRequest, id, "Invalid JSON-RPC request")>>
            /\ stream' = stream
            /\ wsOut' = wsOut /\ sendLog'[r] = << >>
            /\ sessions' = sessions
            /\ timers' = timers /\ listeners' = listeners /\ fetching' = fetching]_vars

(* C10 happens: an envelope without a method and without an id, posted to  *)
(* an open session, was answered by -32600 with id null.                   *)
C10_Witness ==
    \E r \in DOMAIN requests :
        /\ requests[r].sid \in DOMAIN sessions
        /\ requests[r].rpc.present
        /\ requests[r].rpc.method = Absent
        /\ requests[r].rpc.id = NoId
        /\ out[r] = <<HttpRpcError(Null)>>

(* C11: notifications/initialized is acknowledged and writes nothing to    *)
(* the stream; a method other than initialize, tools/list, tools/call and  *)
(* notifications/initialized is acknowledged and answered by exactly one   *)
(* `message` event, a JSON-RPC error with code -32601 and the request's    *)
(* id; neither touches a plugin socket, a timer or the initialized flag.   *)
C11_MethodDispatch ==
    [][PostStep =>
        LET r == Len(requests')
            rq == requests'[r]
            known == {"initialize", "tools/list", "tools/call", "notifications/initialized"}
        IN (rq.sid \in DOMAIN sessions /\ IsEnvelope(rq.rpc)) =>
            /\ rq.rpc.method = "notifications/initialized" =>
                    /\ out'[r] = <<HttpAck(rq.rpc.id)>>
                    /\ stream' = stream
            /\ rq.rpc.method \notin known =>
                    /\ Len(out'[r]) = 2
                    /\ out'[r][1] = HttpAck(rq.rpc.id)
                    /\ out'[r][2].ch = "sse" /\ out'[r][2].kind = "error"
                    /\ out'[r][2].code = -32601 /\ out'[r][2].id = rq.rpc.id
                    /\ stream'[rq.sid] =
                         Append(stream[rq.sid], [event |-> "message", req |-> r, id |-> rq.rpc.id])
                    /\ \A t \in DOMAIN sessions \ {rq.sid} : stream'[t] = stream[t]
            /\ (rq.rpc.method = "notifications/initialized" \/ rq.rpc.method \notin known) =>
                    /\ sessions' = sessions /\ wsOut' = wsOut /\ sendLog'[r] = << >>
                    /\ timers' = timers /\ listeners' = listeners /\ fetching' = fetching]_vars

(* C11 happens: an unknown method got its one -32601 event and the request *)
(* is settled.                                                             *)
C11_Witness ==
    \E r \in DOMAIN requests :
        /\ requests[r].rpc.method = "resources/list"
        /\ requests[r].rpc.id # NoId
        /\ Len(out[r]) = 2
        /\ out[r][2].code = MethodNotFound
        /\ Len(FramesOf(r)) = 1

(* C12: the `count` field of every tools/list reply equals the number of   *)
(* tool descriptors in its `tools` array.                                  *)
C12_CountMatchesTools ==
    \A r \in DOMAIN requests :
        (Acked(r) /\ requests[r].rpc.method = "tools/list") =>
            \A i \in 2..Len(out[r]) : out[r][i].data[1].count = out[r][i].data[1].tools

(* The frame the plugin sends when selectNode throws for a missing node. *)
NotFoundFrame == Frame("operation-error", "select-node", "Node not found")

(* Request r has a timeout error written after an answer to a plugin frame. *)
TimeoutFollows(r) ==
    \E i, j \in 1..Len(out[r]) :
        /\ i < j
        /\ out[r][i].ch = "sse" /\ out[r][i].tag # "Operation timeout"
        /\ out[r][j].ch = "sse" /\ out[r][j].tag = "Operation timeout"

TimeoutError(r) == SseError(requests[r].rpc.id, -32603, "Operation timeout")

(* C14: every await-confirmation call dispatched while a plugin is         *)
(* connected arms a timer, the same 5000 ms for all seven tools; only a    *)
(* plugin message or the timer's own firing disarms it; when it fires the  *)
(* error -32603 "Operation timeout" with the request's id is written, at   *)
(* most once per call; and an armed timer does not stay armed for ever.    *)
C14_CorrelationTimeout ==
    /\ [][PostStep =>
            LET r == Len(requests')
                rpc == requests'[r].rpc
            IN (/\ out'[r][1].kind = "ack"
                /\ rpc.method = "tools/call"
                /\ rpc.name \in AwaitTools
                /\ Required(rpc.name) \subseteq rpc.args
                /\ Len(figmaClients) >= 1)
               => r \in timers' /\ Len(out'[r]) = 1]_vars
    /\ [][\A r \in DOMAIN requests :
            (r \in timers /\ r \notin timers') =>
                \/ \E w \in Sockets, f \in PluginFrames : PluginMessage(w, f)
                \/ /\ out'[r] = Append(out[r], TimeoutError(r))
                   /\ requests[r].sid \in DOMAIN sessions =>
                        FramesOf(r)' = Append(FramesOf(r),
                            [event |-> "message", req |-> r, id |-> requests[r].rpc.id])]_vars
    /\ [](\A r \in DOMAIN requests :
            /\ Len(SelectSeq(out[r], LAMBDA e : e.tag = "Operation timeout")) <= 1
            /\ \A i \in 1..Len(out[r]) :
                  out[r][i].tag = "Operation timeout" => out[r][i] = TimeoutError(r))
    /\ [](\A t \in AwaitTools : TimeoutMs(t) = 5000)
    /\ \A r \in 1..MaxRequests : (r \in timers) ~> (r \notin timers)

(* C14 happens: a moveNode call dispatched to a connected plugin got the   *)
(* timeout error as its only response.                                     *)
C14_Witness ==
    \E r \in DOMAIN requests :
        /\ requests[r].rpc.name = "figma.moveNode"
        /\ Len(sendLog[r]) >= 1
        /\ out[r] = <<HttpAck(requests[r].rpc.id), TimeoutError(r)>>
        /\ Len(FramesOf(r)) = 1

(* The operation-error frames. *)
ErrorFrames == {f \in PluginFrames : f.type = "operation-error"}

(* The listener of pending call r on socket w receives the operation-error *)
(* frame f of the call's own operation while the call's timer is armed.    *)
ErrorSeen(w, r, f) ==
    /\ AwaitCall(r)
    /\ f.originalOperation = OpTag(requests[r].rpc.name)
    /\ Registered(r) \in listeners[w]
    /\ r \in timers
    /\ PluginMessage(w, f)

(* The step cancels r's timer and appends one error -32603 with r's id and *)
(* the given data to r's responses.                                        *)
ErrorForwarded(r, data) ==
    /\ r \notin timers'
    /\ Len(out'[r]) = Len(out[r]) + 1
    /\ SubSeq(out'[r], 1, Len(out[r])) = out[r]
    /\ LET e == out'[r][Len(out'[r])]
       IN /\ e.ch = "sse" /\ e.kind = "error" /\ e.code = -32603
          /\ e.id = requests[r].rpc.id
          /\ e.data = data

C16_ListensOnEverySocket ==
    [][PostStep =>
        LET r == Len(requests')
            rpc == requests'[r].rpc
        IN (/\ out'[r][1].kind = "ack"
            /\ rpc.method = "tools/call"
            /\ rpc.name \in AwaitTools
            /\ Required(rpc.name) \subseteq rpc.args
            /\ Len(figmaClients) >= 2)
           => \A w \in MapSockets(figmaClients) : Registered(r) \in listeners'[w]]_vars

(* C17: the pool holds exactly the plugin sockets that have connected and  *)
(* not yet closed, each under an identifier of its own (also when two      *)
(* plugins connect at the same clock instant).                             *)
C17_PoolIsTheOpenSockets ==
    /\ MapSockets(figmaClients) = {w \in Sockets : wsState[w] = "open"}
    /\ Len(figmaClients) = Cardinality({w \in Sockets : wsState[w] = "open"})
    /\ \A v, w \in Sockets :
          (wsState[v] = "open" /\ wsState[w] = "open" /\ v # w) => clientIdOf[v] # clientIdOf[w]

(* The step belongs to the handling of a request: POST /message, a fetch   *)
(* result, a call listener or a timeout callback.                          *)
HandlingStep ==
    \/ requests' # requests \/ out' # out \/ timers' # timers
    \/ listeners' # listeners \/ fetching' # fetching

(* C18: every JSON-RPC error other than the synchronous -32600 is a        *)
(* `message` event on the session's stream; no request-handling,           *)
(* correlation or timeout step removes a session from the registry or      *)
(* ends or rewrites a stream (it only appends `message` events, one per    *)
(* response while the session is open), and none adds or removes a         *)
(* plugin-pool entry.                                                      *)
C18_ErrorsOnTheStream ==
    /\ [](\A r \in DOMAIN requests : \A i \in 1..Len(out[r]) :
            (out[r][i].kind = "error" /\ out[r][i].code # -32600) =>
                out[r][i].ch = "sse" /\ i >= 2)
    /\ [][HandlingStep =>
            /\ DOMAIN sessions' = DOMAIN sessions
            /\ figmaClients' = figmaClients
            /\ wsState' = wsState /\ clientIdOf' = clientIdOf
            /\ \A sid \in SessionIds :
                /\ Len(stream'[sid]) >= Len(stream[sid])
                /\ SubSeq(stream'[sid], 1, Len(stream[sid])) = stream[sid]
                /\ \A i \in (Len(stream[sid]) + 1)..Len(stream'[sid]) :
                        stream'[sid][i].event = "message"
            /\ \A r \in DOMAIN requests' :
                   requests'[r].sid \in DOMAIN sessions =>
                      Len(FramesOf(r)') - (IF r \in DOMAIN requests THEN Len(FramesOf(r)) ELSE 0)
                        = Len(SelectSeq(out'[r], LAMBDA e : e.ch = "sse"))
                            - (IF r \in DOMAIN requests THEN Len(SseEvents(r)) ELSE 0)]_vars

(* C18 happens: a call ended in the timeout error, delivered as a message  *)
(* event on its stream; the session and the plugin are still registered.   *)
C18_Witness ==
    \E r \in DOMAIN requests :
        /\ Len(out[r]) = 2
        /\ out[r][2] = TimeoutError(r)
        /\ requests[r].sid \in DOMAIN sessions
        /\ Len(stream[requests[r].sid]) = 2
        /\ stream[requests[r].sid][2].event = "message"
        /\ Len(figmaClients) >= 1

(* The frames of kind ev on the stream of session sid. *)
FramesOfKind(sid, ev) == SelectSeq(stream[sid], LAMBDA fr : fr.event = ev)

(* C19: on GET /sse-cursor the session is registered with initialized =    *)
(* false and the endpoint event carrying its id is the first frame of its  *)
(* stream, before any heartbeat or message event; a POST that uses the id  *)
(* while the session is open is accepted; a heartbeat frame is written     *)
(* only for a session that is open; the stream's close removes the session *)
(* from the registry and stops its heartbeat, and nothing further is       *)
(* written on a closed stream.                                             *)
C19_StreamOpenProtocol ==
    /\ [](\A sid \in SessionIds :
            stream[sid] # << >> =>
                /\ stream[sid][1] = [event |-> "endpoint", req |-> 0, id |-> sid]
                /\ Len(FramesOfKind(sid, "endpoint")) = 1)
    /\ [](heartbeat = DOMAIN sessions)
    /\ [][\A sid \in SessionIds :
            /\ (sid \notin DOMAIN sessions /\ sid \in DOMAIN sessions') =>
                    /\ sessions'[sid] = [initialized |-> FALSE]
                    /\ stream[sid] = << >>
                    /\ stream'[sid] = <<[event |-> "endpoint", req |-> 0, id |-> sid]>>
            /\ Len(FramesOfKind(sid, "heartbeat")') > Len(FramesOfKind(sid, "heartbeat")) =>
                    sid \in DOMAIN sessions /\ sid \in DOMAIN sessions'
            /\ (sid \in DOMAIN sessions /\ sid \notin DOMAIN sessions') =>
                    sid \notin heartbeat' /\ stream'[sid] = stream[sid]
            /\ (sid \notin DOMAIN sessions /\ sid \notin DOMAIN sessions') =>
                    stream'[sid] = stream[sid]]_vars
    /\ [][PostStep =>
            LET r == Len(requests')
                rq == requests'[r]
            IN (rq.sid \in DOMAIN sessions /\ IsEnvelope(rq.rpc)) =>
                    out'[r][1] = HttpAck(rq.rpc.id)]_vars

(* C19 happens: a session was opened, got a heartbeat and was closed, and  *)
(* a POST using the id of a second, open, session was accepted right       *)
(* after its endpoint frame.                                               *)
C19_Witness ==
    /\ \E sid \in SessionIds \ DOMAIN sessions :
          /\ Len(stream[sid]) = 2
          /\ stream[sid][2].event = "heartbeat"
          /\ sid \notin heartbeat
    /\ \E r \in DOMAIN requests :
          /\ requests[r].sid \in DOMAIN sessions
          /\ Acked(r)
          /\ Len(stream[requests[r].sid]) = 2
          /\ stream[requests[r].sid][2].event = "message"

(* The frames written for request r on the stream of session sid. *)
FramesFor(r, sid) == SelectSeq(stream[sid], LAMBDA fr : fr.req = r)

(* C20: closing a stream while a call is pending removes that session's    *)
(* registry entry and nothing else: the timers, the listeners and the      *)
(* responses so far stay as they are.  When the call of a closed session   *)
(* fires later (a matching frame or the timeout), its write is dropped:    *)
(* no frame for it appears on any stream, and the registry and the pool    *)
(* stay as they are.                                                       *)
C20_CloseDoesNotCancel ==
    /\ [][\A sid \in SessionIds :
            (sid \in DOMAIN sessions /\ sid \notin DOMAIN sessions') =>
                /\ DOMAIN sessions' = DOMAIN sessions \ {sid}
                /\ \A t \in DOMAIN sessions' : sessions'[t] = sessions[t]
                /\ timers' = timers /\ listeners' = listeners /\ fetching' = fetching
                /\ out' = out /\ stream' = stream
                /\ figmaClients' = figmaClients /\ wsState' = wsState]_vars
    /\ [][\A r \in DOMAIN requests :
            (requests[r].sid \notin DOMAIN sessions /\ out'[r] # out[r]) =>
                /\ Len(out'[r]) = Len(out[r]) + 1
                /\ \A t \in SessionIds : FramesFor(r, t)' = FramesFor(r, t)
                /\ sessions' = sessions
                /\ figmaClients' = figmaClients /\ wsState' = wsState]_vars

(* C20 happens: the stream of a pending deleteNode call was closed, the    *)
(* call's timeout fired afterwards, no frame was written for it, and the   *)
(* other session and the plugin are still registered.                      *)
C20_Witness ==
    \E r \in DOMAIN requests :
        /\ requests[r].rpc.name = "figma.deleteNode"
        /\ requests[r].sid \in SessionIds \ DOMAIN sessions
        /\ out[r] = <<HttpAck(requests[r].rpc.id), TimeoutError(r)>>
        /\ \A t \in SessionIds : FramesFor(r, t) = << >>
        /\ DOMAIN sessions # {}
        /\ Len(figmaClients) >= 1

(* The call's listener on socket w took a frame that is not JSON while the *)
(* call was pending: createIcon and drawLine clear the timer in their      *)
(* catch block and write nothing.                                          *)
ParseErrorSeen(r, w) ==
    /\ AwaitCall(r)
    /\ requests[r].rpc.name \in {"figma.createIcon", "figma.drawLine"}
    /\ Registered(r) \in listeners[w]
    /\ r \notin timers
    /\ Len(out[r]) = 1

(* C21: a plugin frame that is not valid JSON is not fatal.  The step that *)
(* handles it leaves the socket open and in the pool, writes no response,  *)
(* and leaves every session and stream as it was; a well-formed frame that *)
(* arrives on that socket afterwards is still handled: the completion of   *)
(* the pending call is answered by the call's success response.            *)
C21_MalformedFrameNonFatal ==
    /\ [][\A w \in Sockets :
            PluginMessage(w, Malformed) =>
                /\ wsState'[w] = "open"
                /\ figmaClients' = figmaClients /\ clientIdOf' = clientIdOf
                /\ w \in MapSockets(figmaClients) => w \in MapSockets(figmaClients')
                /\ out' = out
                /\ sessions' = sessions /\ stream' = stream /\ heartbeat' = heartbeat
                /\ \A r \in DOMAIN requests :
                      (requests[r].rpc.name \in AwaitOn /\ Registered(r) \in listeners[w])
                          => Registered(r) \in listeners'[w]]_vars
    /\ [][\A w \in Sockets : \A r \in DOMAIN requests :
            (/\ ParseErrorSeen(r, w)
             /\ PluginMessage(w, Frame("operation-completed", OpTag(requests[r].rpc.name), "")))
            => /\ Len(out'[r]) = Len(out[r]) + 1
               /\ SubSeq(out'[r], 1, Len(out[r])) = out[r]
               /\ out'[r][Len(out'[r])].kind = "result"
               /\ out'[r][Len(out'[r])].id = requests[r].rpc.id]_vars

(* C21 happens: the listener of a pending createIcon call took a frame     *)
(* that is not JSON; the socket is open and in the pool, the call's        *)
(* session is registered and nothing was written for the call.             *)
C21_Witness ==
    \E r \in DOMAIN requests, w \in Sockets :
        /\ ParseErrorSeen(r, w)
        /\ requests[r].rpc.name = "figma.createIcon"
        /\ wsState[w] = "open"
        /\ w \in MapSockets(figmaClients)
        /\ requests[r].sid \in DOMAIN sessions
        /\ FramesOf(r) = << >>

(* C22: a session starts with initialized = false; an acknowledged         *)
(* initialize sets the flag of its session to true and is the only step    *)
(* that changes a flag; the flag of a session in the registry never goes   *)
(* back to false; tools/list and tools/call are answered from the envelope *)
(* and the pool alone, the same whether the flag is false or true, and     *)
(* leave the flag as it is.                                                *)
C22_InitializedFlag ==
    /\ [][\A sid \in SessionIds :
            /\ (sid \notin DOMAIN sessions /\ sid \in DOMAIN sessions') =>
                    sessions'[sid].initialized = FALSE
            /\ (sid \in DOMAIN sessions /\ sid \in DOMAIN sessions') =>
                    /\ sessions[sid].initialized => sessions'[sid].initialized
                    /\ sessions'[sid].initialized # sessions[sid].initialized =>
                            /\ PostStep
                            /\ requests'[Len(requests')].rpc.method = "initialize"
                            /\ requests'[Len(requests')].sid = sid]_vars
    /\ [][PostStep =>
            LET r == Len(requests')
                rq == requests'[r]
            IN (out'[r][1].kind = "ack") =>
                /\ rq.rpc.method = "initialize" => sessions'[rq.sid].initialized = TRUE
                /\ rq.rpc.method \in {"tools/list", "tools/call"} =>
                      /\ sessions' = sessions
                      /\ out'[r] = <<HttpAck(rq.rpc.id)>> \o SyncReply(rq.rpc, figmaClients)
                      /\ Len(sendLog'[r]) = IF Broadcasts(rq.rpc) THEN Len(figmaClients) ELSE 0
                      /\ r \in timers' <=> ArmsTimer(rq.rpc, figmaClients)]_vars

(* C22 happens: a createText call posted on a session that was not yet     *)
(* initialized got its result, and an initialize posted afterwards on the  *)
(* same session set the flag.                                              *)
C22_Witness ==
    \E r1, r2 \in DOMAIN requests :
        /\ r1 < r2
        /\ requests[r1].sid = requests[r2].sid
        /\ requests[r1].rpc.name = "figma.createText"
        /\ Len(out[r1]) = 2 /\ out[r1][2].kind = "result"
        /\ requests[r2].rpc.method = "initialize"
        /\ Acked(r2)
        /\ sessions[requests[r2].sid].initialized

(* C27: a tools/call of addNumbersTool with numbers a and b is answered by *)
(* exactly one `message` event with the request's id whose text is         *)
(* "Sum of a + b = s" with s = a + b; nothing is sent to a plugin socket   *)
(* and no timer or listener is armed.                                      *)
C27_AddNumbers ==
    [][PostStep =>
        LET r == Len(requests')
            rq == requests'[r]
        IN (/\ out'[r][1].kind = "ack"
            /\ rq.rpc.method = "tools/call"
            /\ rq.rpc.name = "addNumbersTool"
            /\ DOMAIN rq.rpc.vals = {"a", "b"})
           => LET a == rq.rpc.vals["a"]
                  b == rq.rpc.vals["b"]
              IN /\ Len(out'[r]) = 2
                 /\ out'[r][2].ch = "sse" /\ out'[r][2].kind = "result"
                 /\ out'[r][2].id = rq.rpc.id
                 /\ out'[r][2].data =
                        <<"Sum of " \o ToString(a) \o " + " \o ToString(b)
                            \o " = " \o ToString(a + b)>>
                 /\ stream'[rq.sid] =
                        Append(stream[rq.sid], [event |-> "message", req |-> r, id |-> rq.rpc.id])
                 /\ sendLog'[r] = << >> /\ wsOut' = wsOut
                 /\ timers' = timers /\ listeners' = listeners /\ fetching' = fetching]_vars

(* C27 happens: addNumbersTool with a = 2 and b = -3, posted while a       *)
(* plugin was connected, was answered by "Sum of 2 + -3 = -1".             *)
C27_Witness ==
    \E r \in DOMAIN requests :
        /\ requests[r].rpc.name = "addNumbersTool"
        /\ DOMAIN requests[r].rpc.vals = {"a", "b"}
        /\ requests[r].rpc.vals["a"] = 2 /\ requests[r].rpc.vals["b"] = -3
        /\ Len(out[r]) = 2
        /\ out[r][2].data = <<"Sum of 2 + -3 = -1">>
        /\ Len(figmaClients) >= 1
        /\ \A w \in Sockets : Len(wsOut[w]) <= 1

(* The value the agent gave for k, or d when it gave none. *)
GivenOr(rpc, k, d) == IF k \in DOMAIN rpc.vals THEN rpc.vals[k] ELSE d

(* The value the agent gave for k, or d when it gave none or an empty one. *)
NonEmptyOr(rpc, k, d) ==
    IF k \in DOMAIN rpc.vals /\ rpc.vals[k] # "" THEN rpc.vals[k] ELSE d

(* The step handles an acknowledged call of tool whose argument check      *)
(* passes, and every socket of the pool gets one operation whose members   *)
(* are data.                                                               *)
BroadcastsData(tool, data) ==
    LET r == Len(requests')
        rq == requests'[r]
    IN (/\ out'[r][1].kind = "ack"
        /\ rq.rpc.method = "tools/call"
        /\ rq.rpc.name = tool
        /\ ~ArgsRejected(tool, rq.rpc.args))
       => \A w \in MapSockets(figmaClients) :
             wsOut'[w] = Append(wsOut[w], [type |-> OpTag(tool), req |-> r, data |-> data])

C26_IconFallback ==
    /\ [][PostStep =>
            LET rpc == requests'[Len(requests')].rpc
                name == IF rpc.vals["iconName"] \in LUCIDE_ICONS
                        THEN rpc.vals["iconName"] ELSE "square-x"
            IN BroadcastsData("figma.createIcon",
                  [iconName |-> name, svgData |-> SvgOf(name),
                   position |-> rpc.vals["position"]])]_vars
    /\ [](\A r \in DOMAIN requests : \A i \in 1..Len(out[r]) :
            (requests[r].rpc.name = "figma.createIcon" /\ out[r][i].kind = "result") =>
                LET n == requests[r].rpc.vals["iconName"]
                IN out[r][i].data =
                      <<IF n \in LUCIDE_ICONS
                        THEN "Successfully created '" \o n \o "' icon"
                        ELSE "Icon '" \o n \o "' not found. Created fallback 'square-x' icon instead">>)

(* An acknowledged call of a fire-and-report tool with valid arguments. *)
ReportCall(r) ==
    /\ Acked(r)
    /\ requests[r].rpc.method = "tools/call"
    /\ requests[r].rpc.name \in ReportTools
    /\ ~ArgsRejected(requests[r].rpc.name, requests[r].rpc.args)

(* C23: each of the eleven fire-and-report tools, called with valid        *)
(* arguments, sends its operation once to every socket of the pool and     *)
(* writes exactly one success response in the same handler step, arming no *)
(* timer and no listener; nothing that happens later, a plugin message for *)
(* the operation included, writes anything more for the request.           *)
C23_FireAndReport ==
    /\ [][PostStep =>
            LET r == Len(requests')
                rq == requests'[r]
            IN (/\ out'[r][1].kind = "ack"
                /\ rq.rpc.method = "tools/call"
                /\ rq.rpc.name \in ReportTools
                /\ ~ArgsRejected(rq.rpc.name, rq.rpc.args))
               => /\ Len(out'[r]) = 2
                  /\ out'[r][2].ch = "sse" /\ out'[r][2].kind = "result"
                  /\ out'[r][2].id = rq.rpc.id
                  /\ stream'[rq.sid] =
                        Append(stream[rq.sid], [event |-> "message", req |-> r, id |-> rq.rpc.id])
                  /\ Len(sendLog'[r]) = Len(figmaClients)
                  /\ \A w \in Sockets :
                        wsOut'[w] = IF w \in Delivered(sendLog'[r])
                                    THEN Append(wsOut[w], Operation(rq.rpc, r))
                                    ELSE wsOut[w]
                  /\ timers' = timers /\ listeners' = listeners /\ fetching' = fetching]_vars
    /\ [][\A r \in DOMAIN requests :
            ReportCall(r) =>
                /\ out'[r] = out[r]
                /\ \A t \in SessionIds : FramesFor(r, t)' = FramesFor(r, t)
                /\ \A w \in Sockets :
                     Len(SelectSeq(wsOut'[w], LAMBDA fr : fr.req = r))
                        = Len(SelectSeq(wsOut[w], LAMBDA fr : fr.req = r))]_vars
    /\ [](\A r \in DOMAIN requests :
            ReportCall(r) =>
                /\ r \notin timers
                /\ \A w \in Sockets : \A l \in listeners[w] : l.req # r)

(* C23 happens: a createText call got its one success response, its        *)
(* operation went to the plugin, and plugin messages handled afterwards    *)
(* (they resolved a later drawLine call) added nothing to it.              *)
C23_Witness ==
    \E r1, r2 \in DOMAIN requests, w \in Sockets :
        /\ r1 < r2
        /\ ReportCall(r1) /\ requests[r1].rpc.name = "figma.createText"
        /\ Len(out[r1]) = 2 /\ out[r1][2].kind = "result"
        /\ Len(FramesOf(r1)) = 1
        /\ \E i \in 1..Len(wsOut[w]) : wsOut[w][i] = Operation(requests[r1].rpc, r1)
        /\ requests[r2].rpc.name = "figma.drawLine"
        /\ Len(PluginAnswers(r2)) >= 1

(* C24: the interrupt signal empties the session registry, whatever it    *)
(* held, and closes the WebSocket listener before the process exits;       *)
(* pending calls are not awaited: their timers and listeners are left as   *)
(* they are and nothing is written for them, then or afterwards.           *)
C24_Shutdown ==
    /\ [][shutdown' # shutdown =>
            /\ shutdown = << >>
            /\ sessions' = << >>
            /\ Len(shutdown') = Cardinality(DOMAIN sessions) + 2
            /\ \A i \in 1..Cardinality(DOMAIN sessions) : shutdown'[i] = "sessions.delete"
            /\ shutdown'[Len(shutdown') - 1] = "wss.close"
            /\ shutdown'[Len(shutdown')] = "process.exit"
            /\ timers' = timers /\ listeners' = listeners
            /\ out' = out /\ stream' = stream /\ wsOut' = wsOut]_vars
    /\ [][shutdown # << >> => UNCHANGED vars]_vars
    /\ [](shutdown # << >> => sessions = << >>)

(* C24 happens: SIGINT came while two sessions were open and a moveNode    *)
(* call was pending; the registry is empty, the listener was closed before *)
(* the exit, and the call was left unanswered with its timer armed.        *)
C24_Witness ==
    /\ shutdown = <<"sessions.delete", "sessions.delete", "wss.close", "process.exit">>
    /\ sessions = << >>
    /\ \E r \in DOMAIN requests :
          /\ requests[r].rpc.name = "figma.moveNode"
          /\ r \in timers
          /\ out[r] = <<HttpAck(requests[r].rpc.id)>>

(* Call r is pending: dispatched, its timer armed, nothing written yet. *)
Pending(r) == AwaitCall(r) /\ r \in timers /\ Len(SseEvents(r)) = 0

(* C28: the first matching message resolves a pending await-confirmation   *)
(* call, however many non-matching messages (plugin-ready, the completion  *)
(* of another operation) come before it on the listened socket.  A message *)
(* reaches the call only through the call's listener: so a well-formed     *)
(* message that does not match leaves the listener of a pending call       *)
(* attached and its timer armed, and writes nothing.                       *)
C28_NonMatchingKeepsListening ==
    [][\A w \in Sockets : \A r \in DOMAIN requests : \A f \in PluginFrames \ {Malformed} :
        (/\ Pending(r)
         /\ Registered(r) \in listeners[w]
         /\ Match(requests[r].rpc.name, f) = "none"
         /\ PluginMessage(w, f))
        => /\ Registered(r) \in listeners'[w]
           /\ r \in timers'
           /\ out'[r] = out[r]]_vars

(* C29: once a call has resolved, by match or by timeout, none of its      *)
(* listeners is attached to any plugin socket: every call listener on a    *)
(* socket belongs to a call that has no response yet, so a socket never    *)
(* carries more call listeners than there are unresolved pending calls.    *)
C29_ListenersDetached ==
    /\ \A w \in Sockets : \A l \in listeners[w] : Len(SseEvents(l.req)) = 0
    /\ \A w \in Sockets :
          Cardinality(listeners[w])
            <= Cardinality({r \in DOMAIN requests : AwaitCall(r) /\ Len(SseEvents(r)) = 0})

(* The requests for which the step writes a response. *)
Answered == {r \in DOMAIN requests : out'[r] # out[r]}

(* C30: when two calls of the same operation are pending at once, one      *)
(* matching plugin message resolves exactly one of them and the other      *)
(* stays pending.                                                          *)
C30_FirstMatchWins ==
    [][\A w \in Sockets : \A f \in OverlapFrames : \A r1, r2 \in DOMAIN requests :
        (/\ r1 # r2
         /\ Pending(r1) /\ Pending(r2)
         /\ requests[r1].rpc.name = requests[r2].rpc.name
         /\ Registered(r1) \in listeners[w] /\ Registered(r2) \in listeners[w]
         /\ Match(requests[r1].rpc.name, f) # "none"
         /\ PluginMessage(w, f))
        => /\ Cardinality(Answered) = 1
           /\ \E r \in {r1, r2} : out'[r] = out[r] /\ r \in timers']_vars

(* ---------------------------------------------------------------------- *)
(* The ws.once tools without a plugin                                      *)
(* ---------------------------------------------------------------------- *)

(* An acknowledged, valid call of selectNode, listNodes or deleteNode that *)
(* found the pool empty (its broadcast made no send attempt).              *)
NoPluginCall(r) ==
    /\ AwaitCall(r)
    /\ requests[r].rpc.name \in AwaitOnce
    /\ sendLog[r] = << >>

(* The error names the missing plugin connection. *)
NoConnectionError(e) ==
    /\ e.ch = "sse" /\ e.kind = "error" /\ e.code = -32603
    /\ e.tag \in {"No Figma connection", "No Figma plugin connected"}

(* C33: selectNode, listNodes and deleteNode called while the pool is      *)
(* empty write exactly one error -32603 that names the missing plugin      *)
(* connection, in the handler step of the request itself; the timer the    *)
(* branch armed is cancelled in that step, no listener stays, and no       *)
(* timeout error follows.                                                  *)
C33_NoPluginFastPath ==
    /\ [][\A r \in 1..MaxOverlap :
            (PostStep /\ r = Len(requests') /\ (NoPluginCall(r))') =>
                /\ figmaClients = << >>
                /\ Len(out'[r]) = 2
                /\ NoConnectionError(out'[r][2])
                /\ out'[r][2].id = requests'[r].rpc.id
                /\ r \notin timers'
                /\ \A w \in Sockets : Registered(r) \notin listeners'[w]
                /\ stream'[requests'[r].sid] =
                        Append(stream[requests'[r].sid],
                               [event |-> "message", req |-> r, id |-> requests'[r].rpc.id])]_vars
    /\ [](\A r \in DOMAIN requests :
            NoPluginCall(r) => Len(out[r]) = 2 /\ r \notin timers)

C33_Witness ==
    \E r \in DOMAIN requests :
        /\ NoPluginCall(r)
        /\ requests[r].rpc.name = "figma.listNodes"
        /\ NoConnectionError(out[r][2])
        /\ Len(FramesOf(r)) = 1

(* ---------------------------------------------------------------------- *)
(* Order of the checks of POST /message                                    *)
(* ---------------------------------------------------------------------- *)

(* The handler's step left the streams, the plugin sockets, the registry,  *)
(* the pool and everything pending as they were.                           *)
NothingDone(r) ==
    /\ UNCHANGED <<stream, wsOut, sessions, figmaClients, timers, listeners, fetching>>
    /\ sendLog'[r] = << >>

(* C34: the checks of POST /message run in the order session, envelope,    *)
(* acknowledgement, dispatch.  A request with no session id is answered    *)
(* 400 and one with an unknown id 404, whatever its body (a malformed      *)
(* envelope gets no -32600 there); neither is acknowledged, and nothing is *)
(* written, broadcast or changed.  When the query and the header both      *)
(* carry a session id, the query parameter decides.                        *)
C34_SessionChecksFirst ==
    [][PostStep =>
        \A q \in 0..MaxSessions, h \in 0..MaxSessions,
           rpc \in Envelopes(Len(requests) + 1),
           bad \in SUBSET MapSockets(figmaClients) :
            LET r == Len(requests) + 1 IN
            PostMessage(q, h, rpc, bad) =>
                /\ (q = 0 /\ h = 0) => out'[r] = <<HttpPlain(400)>> /\ NothingDone(r)
                /\ (q # 0 /\ q \notin DOMAIN sessions) =>
                        out'[r] = <<HttpPlain(404)>> /\ NothingDone(r)
                /\ (q = 0 /\ h # 0 /\ h \notin DOMAIN sessions) =>
                        out'[r] = <<HttpPlain(404)>> /\ NothingDone(r)
                /\ (q # 0 /\ q \in DOMAIN sessions) =>
                        /\ out'[r][1].kind = IF WellFormed(rpc) THEN "ack" ELSE "error"
                        /\ \A s \in SessionIds \ {q} : stream'[s] = stream[s]]_vars

(* C34 happens: while a session is open, a request without a body that     *)
(* names a session that is not registered was answered 404 and nothing     *)
(* else.                                                                   *)
C34_Witness ==
    \E r \in DOMAIN requests :
        /\ ~requests[r].rpc.present
        /\ requests[r].sid # 0
        /\ out[r] = <<HttpPlain(404)>>
        /\ DOMAIN sessions # {}
        /\ \A s \in DOMAIN sessions : Len(stream[s]) = 1

(* ---------------------------------------------------------------------- *)
(* Responses stay on the stream of the session they were requested on      *)
(* ---------------------------------------------------------------------- *)

(* The `message` events on the stream of session sid. *)
MessagesOn(st, sid) == SelectSeq(st[sid], LAMBDA fr : fr.event = "message")

(* The `message` events the requests posted to session sid have caused. *)
RECURSIVE SseCount(_, _, _)
SseCount(o, sid, r) ==
    IF r = 0 THEN 0
    ELSE SseCount(o, sid, r - 1)
            + (IF requests[r].sid = sid
               THEN Len(SelectSeq(o[r], LAMBDA e : e.ch = "sse")) ELSE 0)

(* C35: every `message` event on a session's stream carries the id of a    *)
(* request that was posted to that same session, and a step that handles   *)
(* or resolves requests writes on the streams of those requests' sessions  *)
(* only, one event per response: so a request of session A never causes a  *)
(* write on the stream of session B, also when A and B have pending calls  *)
(* of the same operation and one plugin message resolves both.             *)
C35_ResponsesStayInSession ==
    /\ [](\A sid \in SessionIds : \A i \in DOMAIN stream[sid] :
            stream[sid][i].event = "message" =>
                \E r \in DOMAIN requests :
                    requests[r].sid = sid /\ requests[r].rpc.id = stream[sid][i].id)
    /\ [][requests' = requests =>
            \A sid \in SessionIds :
                Len(MessagesOn(stream', sid)) - Len(MessagesOn(stream, sid))
                    = SseCount(out', sid, Len(requests)) - SseCount(out, sid, Len(requests))]_vars

(* C35 happens: two calls of selectNode posted to two different sessions    *)
(* were both resolved (by the one plugin message their once-listeners got), *)
(* and each stream holds the response of its own request only.              *)
C35_Witness ==
    /\ Len(requests) = 2
    /\ requests[1].sid # requests[2].sid
    /\ \A r \in {1, 2} :
        /\ requests[r].rpc.name = "figma.selectNode"
        /\ Len(SseEvents(r)) = 1
        /\ SseEvents(r)[1].tag = "success"
        /\ Len(MessagesOn(stream, requests[r].sid)) = 1
        /\ MessagesOn(stream, requests[r].sid)[1].id = requests[r].rpc.id

(* ---------------------------------------------------------------------- *)
(* The ws.once tools and the plugin's messages                             *)
(* ---------------------------------------------------------------------- *)

(* Two calls in a row, or overlapping, of the ws.once tools and of         *)
(* moveNode (a ws.on tool), while the plugin sends the messages its        *)
(* handlers post for these operations.                                     *)
OneShotTools == AwaitOnce \cup {"figma.moveNode"}

OneShotEnvelopes(id) ==
    {Rpc(TRUE, "2.0", id, "tools/call", t, Required(t) \cup Tested(t)) : t \in OneShotTools}

OneShotFrames ==
    {Frame("plugin-ready", "", ""), Frame("nodes-deleted", "", ""),
     Frame("nodes-moved", "", ""), Frame("nodes-list", "", "")}
    \cup {Frame("operation-completed", OpTag(t), "") : t \in OneShotTools}
    \cup {Frame("operation-error", OpTag(t), "failed") : t \in OneShotTools}

OneShotNext ==
    \/ SessionOpen
    \/ PluginConnect(1)
    \/ \E q \in SessionIds, rpc \in OneShotEnvelopes(Len(requests) + 1) :
            Len(requests) < MaxOverlap /\ PostMessage(q, 0, rpc, {})
    \/ \E w \in Sockets, f \in OneShotFrames : PluginMessage(w, f)
    \/ \E r \in DOMAIN requests : Timeout(r)

OneShotSpec == Init /\ [][OneShotNext]_vars

(* An acknowledged, valid call of selectNode, listNodes or deleteNode. *)
OneShotCall(r) == AwaitCall(r) /\ requests[r].rpc.name \in AwaitOnce

(* The responses of request r that a plugin message triggered. *)
PluginTriggered(o, r) ==
    SelectSeq(o[r], LAMBDA e : e.ch = "sse" /\ e.tag \in {"success", "Operation failed"})

(* C36: a call of a one-shot tool (selectNode, listNodes, deleteNode)      *)
(* writes at most one response that a plugin message triggered.  The       *)
(* call's listener handles one message and is gone: nodes-deleted arriving *)
(* for a pending deleteNode writes the one success response and clears the *)
(* timer, and the operation-completed messages for delete-node that follow *)
(* it, like every later message, write nothing for that call.              *)
C36_OneShotAnswersOnce ==
    /\ [](\A r \in DOMAIN requests :
            OneShotCall(r) =>
                /\ Len(PluginTriggered(out, r)) <= 1
                /\ Cardinality({w \in Sockets : Registered(r) \in listeners[w]}) <= 1)
    /\ [][\A w \in Sockets : \A f \in OneShotFrames : \A r \in DOMAIN requests :
            (OneShotCall(r) /\ PluginMessage(w, f)) =>
                IF Registered(r) \in listeners[w]
                THEN /\ Registered(r) \notin listeners'[w]
                     /\ (requests[r].rpc.name = "figma.deleteNode"
                            /\ f \in {Frame("nodes-deleted", "", ""),
                                      Frame("operation-completed", "delete-node", "")})
                        => /\ out'[r] = Append(out[r], SseResult(requests[r].rpc.id, "success"))
                           /\ r \notin timers'
                ELSE out'[r] = out[r]]_vars

(* C36 happens: a deleteNode call got its one success response, and a      *)
(* moveNode call posted after it was answered twice by later messages on   *)
(* the socket, none of which wrote anything for the deleteNode call.       *)
C36_Witness ==
    /\ Len(requests) = 2
    /\ OneShotCall(1)
    /\ requests[1].rpc.name = "figma.deleteNode"
    /\ requests[2].rpc.name = "figma.moveNode"
    /\ Len(PluginTriggered(out, 1)) = 1
    /\ PluginTriggered(out, 1)[1].tag = "success"
    /\ Len(out[1]) = 2
    /\ Len(PluginTriggered(out, 2)) = 2

(* ====================================================================== *)
(* The Figma plugin (figma-plugin/code/ui.html)                            *)
(* ====================================================================== *)

(* ---------------------------------------------------------------------- *)
(* Plugin code: figma.ui.onmessage                                         *)
(* ---------------------------------------------------------------------- *)

(* The case labels of switch (msg.type). *)
Cases ==
    {"create-rectangle", "create-text", "create-page", "select-node", "change-color",
     "change-radius", "change-typeface", "change-font-style", "change-alignment",
     "change-spacing", "list-fonts", "list-nodes", "change-text-resize", "delete-node",
     "move-node", "connection-status"}

(* The branch of the switch a message type takes. *)
Case(type) == IF type \in Cases THEN type ELSE "default"

(* The cases that call a function of the plugin (a Figma API call may      *)
(* fail); connection-status and the default branch only log.               *)
Operations == Cases \ {"connection-status"}

(* The messages the called function posts itself when it succeeds (ok) or  *)
(* fails: fonts-list, nodes-list, nodes-moved; deleteNode's nodes-deleted  *)
(* and operation-completed; the inner try/catch of the create-text case.   *)
FunctionPosts(type, ok) ==
    CASE type = "create-text" ->
            IF ok THEN <<Frame("operation-completed", "create-text", "")>>
            ELSE <<Frame("operation-error", "create-text", "failed")>>
      [] type = "list-fonts" /\ ok -> <<Frame("fonts-list", "", "")>>
      [] type = "list-nodes" /\ ok -> <<Frame("nodes-list", "", "")>>
      [] type = "move-node" /\ ok -> <<Frame("nodes-moved", "", "")>>
      [] type = "delete-node" /\ ok ->
            <<Frame("nodes-deleted", "", ""), Frame("operation-completed", "delete-node", "")>>
      [] OTHER -> << >>

(* The error reaches the catch block of the handler: the create-text case  *)
(* catches its own.                                                        *)
Thrown(type, ok) == ~ok /\ type \in Operations \ {"create-text"}

(* The notification of the handler itself: operation-completed after the   *)
(* switch, operation-error in the catch block.                             *)
HandlerPost(type, ok) ==
    IF Thrown(type, ok) THEN <<Frame("operation-error", type, "failed")>>
    ELSE <<Frame("operation-completed", type, "")>>

(* Everything one run of the handler posts to the UI, in order. *)
Posts(type, ok) == FunctionPosts(type, ok) \o HandlerPost(type, ok)

(* The run applies the operation to the document. *)
Executes(type, ok) == ok /\ type \in Operations

(* figma.ui.onmessage handles the oldest waiting message; ok tells whether *)
(* the operation's function succeeds.                                      *)
Dispatch(ok) ==
    /\ toPlugin # << >>
    /\ LET type == Head(toPlugin).type IN
        /\ ok \/ type \in Operations
        /\ Len(toUi) + Len(Posts(type, ok)) <= MaxPosted
        /\ Executes(type, ok) => Len(executed) < MaxOps
        /\ toUi' = toUi \o Posts(type, ok)
        /\ executed' = IF Executes(type, ok) THEN Append(executed, type) ELSE executed
    /\ toPlugin' = Tail(toPlugin)
    /\ UNCHANGED <<serverVars, readyState, reconnectAttempts, reconnectTimeout,
                   connectionCheckInterval, sent>>

(* ---------------------------------------------------------------------- *)
(* UI script: the socket, the status check and the reconnect timer         *)
(* ---------------------------------------------------------------------- *)
maxReconnectAttempts == 5
CheckEvery == 5     \* setInterval(checkConnectionStatus, 5000), in seconds
DelayCap == 30      \* the cap of the backoff, 30000 ms, in seconds

RECURSIVE Pow2(_)
Pow2(n) == IF n = 0 THEN 1 ELSE 2 * Pow2(n - 1)

(* Math.min(1000 * Math.pow(2, reconnectAttempts - 1), 30000), in seconds *)
Delay(n) == IF Pow2(n - 1) < DelayCap THEN Pow2(n - 1) ELSE DelayCap

ConnectionStatus == Frame("connection-status", "", "")

(* Variant that keeps a pending reconnect timer when the limit is reached. *)
attemptReconnect_Unlimited ==
    /\ reconnectAttempts' = IF reconnectAttempts < maxReconnectAttempts
                            THEN reconnectAttempts + 1 ELSE reconnectAttempts
    /\ reconnectTimeout' = Delay(reconnectAttempts')

(* attemptReconnect: a pending timer is cleared; below the limit the       *)
(* counter is incremented and a new timer is set.                          *)
attemptReconnect ==
    IF reconnectAttempts >= maxReconnectAttempts
    THEN reconnectTimeout' = Off /\ UNCHANGED reconnectAttempts
    ELSE /\ reconnectAttempts' = reconnectAttempts + 1
         /\ reconnectTimeout' = Delay(reconnectAttempts + 1)

(* connectWebSocket: the status check is restarted and ws becomes a new    *)
(* socket, which is CONNECTING.                                            *)
connectWebSocket ==
    /\ connectionCheckInterval' = CheckEvery
    /\ readyState' = "connecting"
    /\ sent' = << >>

(* Variant that takes a socket that is closing for a connected one. *)
IsOpen_NotClosed(st) == st \in {"open", "closing"}

(* ws && ws.readyState === WebSocket.OPEN *)
IsOpen(st) == st = "open"

(* onmessage of the UI script handles the oldest message of the plugin     *)
(* code: connect-to-server connects; any other message is sent to the      *)
(* server if ws is OPEN and is dropped otherwise.                          *)
UiOnMessage ==
    /\ toUi # << >>
    /\ toUi' = Tail(toUi)
    /\ LET msg == Head(toUi) IN
        IF msg.type = "connect-to-server"
        THEN /\ reconnectAttempts' = 0
             /\ connectWebSocket
             /\ UNCHANGED reconnectTimeout
        ELSE IF IsOpen(readyState)
        THEN /\ Len(sent) < MaxSent
             /\ sent' = Append(sent, msg)
             /\ UNCHANGED <<readyState, reconnectAttempts, reconnectTimeout,
                            connectionCheckInterval>>
        ELSE UNCHANGED <<readyState, reconnectAttempts, reconnectTimeout,
                         connectionCheckInterval, sent>>
    /\ UNCHANGED <<serverVars, toPlugin, executed>>

(* The status check runs (every 5 seconds while the interval is set). *)
checkConnectionStatus ==
    /\ connectionCheckInterval = 0
    /\ connectionCheckInterval' = CheckEvery
    /\ CASE readyState \in {"none", "closed"} -> attemptReconnect
         [] readyState = "open" -> reconnectAttempts' = 0 /\ UNCHANGED reconnectTimeout
         [] OTHER -> UNCHANGED <<reconnectAttempts, reconnectTimeout>>
    /\ UNCHANGED <<serverVars, readyState, sent, toPlugin, toUi, executed>>

(* The reconnect timer fires: ws.close() unless ws is CLOSED, then         *)
(* connectWebSocket(serverUrl).                                            *)
ReconnectFires ==
    /\ reconnectTimeout = 0
    /\ reconnectTimeout' = Off
    /\ connectWebSocket
    /\ UNCHANGED <<serverVars, reconnectAttempts, toPlugin, toUi, executed>>

(* One second passes: no pending timer is due. *)
Tick ==
    /\ reconnectTimeout # 0 /\ connectionCheckInterval # 0
    /\ reconnectTimeout > 0 \/ connectionCheckInterval > 0
    /\ reconnectTimeout' = IF reconnectTimeout > 0 THEN reconnectTimeout - 1 ELSE Off
    /\ connectionCheckInterval' =
            IF connectionCheckInterval > 0 THEN connectionCheckInterval - 1 ELSE Off
    /\ UNCHANGED <<serverVars, readyState, reconnectAttempts, sent, toPlugin, toUi, executed>>

(* The connection is established: ws is OPEN and ws.onopen sends           *)
(* plugin-ready and tells the plugin code.                                 *)
SocketOpen ==
    /\ readyState = "connecting"
    /\ Len(toPlugin) < MaxInbox
    /\ readyState' = "open"
    /\ sent' = Append(sent, Frame("plugin-ready", "", ""))
    /\ toPlugin' = Append(toPlugin, ConnectionStatus)
    /\ UNCHANGED <<serverVars, reconnectAttempts, reconnectTimeout, connectionCheckInterval,
                   toUi, executed>>

(* The connection fails: ws is CLOSED; ws.onerror and ws.onclose each tell *)
(* the plugin code.                                                        *)
SocketFail ==
    /\ readyState = "connecting"
    /\ Len(toPlugin) + 2 <= MaxInbox
    /\ readyState' = "closed"
    /\ toPlugin' = toPlugin \o <<ConnectionStatus, ConnectionStatus>>
    /\ UNCHANGED <<serverVars, reconnectAttempts, reconnectTimeout, connectionCheckInterval,
                   sent, toUi, executed>>

(* The server starts to close the connection: ws is CLOSING. *)
SocketClosing ==
    /\ readyState = "open"
    /\ readyState' = "closing"
    /\ UNCHANGED <<serverVars, reconnectAttempts, reconnectTimeout, connectionCheckInterval,
                   sent, toPlugin, toUi, executed>>

(* The connection is closed: ws is CLOSED and ws.onclose tells the plugin  *)
(* code.                                                                   *)
SocketClose ==
    /\ readyState = "closing"
    /\ Len(toPlugin) < MaxInbox
    /\ readyState' = "closed"
    /\ toPlugin' = Append(toPlugin, ConnectionStatus)
    /\ UNCHANGED <<serverVars, reconnectAttempts, reconnectTimeout, connectionCheckInterval,
                   sent, toUi, executed>>

(* ws.onmessage: a frame of the server is parsed and passed to the plugin  *)
(* code.                                                                   *)
ServerFrame(type) ==
    /\ readyState = "open"
    /\ Len(toPlugin) < MaxInbox
    /\ toPlugin' = Append(toPlugin, Frame(type, "", ""))
    /\ UNCHANGED <<serverVars, readyState, reconnectAttempts, reconnectTimeout,
                   connectionCheckInterval, sent, toUi, executed>>

(* The `type` of every operation the server broadcasts. *)
ServerTags == {OpTag(t) : t \in ReportTools \cup AwaitTools}

(* The plugin code and its UI while the server sends operations of every   *)
(* type, one at a time (the next one after the plugin has handled the      *)
(* messages before it), within the first seconds of a connection.          *)
PluginNext ==
    \/ UiOnMessage
    \/ SocketOpen
    \/ SocketFail
    \/ SocketClosing
    \/ SocketClose
    \/ \E type \in ServerTags \cup {"server-ready"} :
            toPlugin = << >> /\ toUi = << >> /\ ServerFrame(type)
    \/ \E ok \in BOOLEAN : Dispatch(ok)

PluginSpec == Init /\ [][PluginNext]_vars

(* The UI script over time: the status check and the reconnect timer run   *)
(* while the server comes and goes and greets the sockets it accepts.      *)
UiNext ==
    \/ UiOnMessage
    \/ checkConnectionStatus
    \/ ReconnectFires
    \/ Tick
    \/ SocketOpen
    \/ SocketFail
    \/ SocketClosing
    \/ SocketClose
    \/ ServerFrame("server-ready")
    \/ \E ok \in BOOLEAN : Dispatch(ok)

UiSpec == Init /\ [][UiNext]_vars

(* ---------------------------------------------------------------------- *)
(* Properties of the plugin code's dispatcher                              *)
(* ---------------------------------------------------------------------- *)

(* The messages the step added to those waiting for the UI script. *)
NewPosts == SubSeq(toUi', Len(toUi) + 1, Len(toUi'))

(* The terminal statuses among a sequence of posted messages. *)
Terminal(ms) ==
    SelectSeq(ms, LAMBDA m : m.type \in {"operation-completed", "operation-error"})

(* C31: for every message the plugin code handles it posts exactly one     *)
(* terminal status, tagged with the message's type as originalOperation:   *)
(* operation-completed if the operation succeeded, operation-error if it   *)
(* threw; never both, never twice.                                         *)
C31_OneTerminalStatus ==
    [][\A ok \in BOOLEAN :
        Dispatch(ok) =>
            /\ Len(Terminal(NewPosts)) = 1
            /\ Terminal(NewPosts)[1].originalOperation = Head(toPlugin).type
            /\ Terminal(NewPosts)[1].type =
                    IF ok THEN "operation-completed" ELSE "operation-error"]_vars

(* C32: every operation type the server broadcasts has a case of its own   *)
(* in the plugin's switch, none takes the default branch: so an            *)
(* operation-completed for a server operation means that the plugin has    *)
(* applied the operation.                                                  *)
C32_EveryTagHasCase ==
    [][\A ok \in BOOLEAN :
        (/\ Dispatch(ok)
         /\ Head(toPlugin).type \in ServerTags
         /\ \E i \in DOMAIN NewPosts :
                NewPosts[i] = Frame("operation-completed", Head(toPlugin).type, ""))
        => /\ Case(Head(toPlugin).type) # "default"
           /\ executed' = Append(executed, Head(toPlugin).type)]_vars

(* ---------------------------------------------------------------------- *)
(* Properties of the UI script                                             *)
(* ---------------------------------------------------------------------- *)

(* The browser runs a timer that is due and a message that waits: the      *)
(* clock advances, the status check and the reconnect timer fire when      *)
(* due, and the UI script and the plugin code handle their messages.       *)
FairUiSpec ==
    /\ UiSpec
    /\ WF_vars(Tick)
    /\ WF_vars(checkConnectionStatus)
    /\ WF_vars(ReconnectFires)
    /\ WF_vars(UiOnMessage)
    /\ WF_vars(\E ok \in BOOLEAN : Dispatch(ok))

(* A reconnect attempt has been counted and announced, and its timer is    *)
(* pending.                                                                *)
AttemptPending == reconnectTimeout # Off

(* C37: every reconnect attempt that attemptReconnect counts and announces *)
(* (reconnectAttempts incremented, a timer set with the backoff delay) is  *)
(* eventually followed by a call of connectWebSocket, which makes ws a     *)
(* CONNECTING socket, unless the status check sees the socket OPEN first   *)
(* and resets the counter.                                                 *)
C37_AttemptLeadsToConnect ==
    [](AttemptPending => <>(readyState = "connecting" \/ reconnectAttempts = 0))

(* The step is a status check that finds no socket or a CLOSED one, and    *)
(* so calls attemptReconnect.                                              *)
CheckSeesClosed == connectionCheckInterval = 0 /\ readyState \in {"none", "closed"}

(* The step is a status check that finds the socket OPEN. *)
CheckSeesOpen == connectionCheckInterval = 0 /\ readyState = "open"

(* The step handles a connect-to-server message of the plugin code. *)
ConnectRequested == toUi # << >> /\ Head(toUi).type = "connect-to-server"

(* C38: reconnectAttempts is always between 0 and maxReconnectAttempts     *)
(* (5).  It changes by an increment of 1, in attemptReconnect only (with   *)
(* the backoff timer set), or by a reset to 0, only when the status check  *)
(* sees the socket OPEN or a connect-to-server message arrives.  While it  *)
(* equals 5 no reconnect timer is set.                                     *)
C38_AttemptsBounded ==
    /\ [](reconnectAttempts \in 0..maxReconnectAttempts)
    /\ [][reconnectAttempts' # reconnectAttempts =>
            \/ /\ reconnectAttempts' = reconnectAttempts + 1
               /\ CheckSeesClosed
               /\ reconnectTimeout' = Delay(reconnectAttempts')
            \/ /\ reconnectAttempts' = 0
               /\ CheckSeesOpen \/ ConnectRequested]_vars
    /\ [][reconnectAttempts = maxReconnectAttempts /\ reconnectAttempts' # 0 =>
            /\ reconnectAttempts' = maxReconnectAttempts
            /\ reconnectTimeout' <= reconnectTimeout]_vars

(* C38 happens: the status check has run with the counter at 5 and has     *)
(* left no timer, and the socket is still CLOSED.                          *)
C38_Witness ==
    /\ reconnectAttempts = maxReconnectAttempts
    /\ reconnectTimeout = Off
    /\ connectionCheckInterval = CheckEvery
    /\ readyState = "closed"

(* C39: a message of the plugin code (other than connect-to-server) is     *)
(* sent to the server if and only if ws is OPEN when the UI script handles *)
(* it; otherwise it is dropped, and nothing of it is kept to be sent       *)
(* later.  The socket's frames are plugin-ready and then the forwarded     *)
(* messages, each appended when it is handled, so they keep the order in   *)
(* which they were posted.                                                 *)
C39_ForwardIffOpen ==
    [][/\ (UiOnMessage /\ Head(toUi).type # "connect-to-server") =>
            IF readyState = "open"
            THEN sent' = Append(sent, Head(toUi))
            ELSE UNCHANGED <<sent, readyState, reconnectAttempts, reconnectTimeout,
                             connectionCheckInterval, toPlugin, executed>>
       /\ sent' # sent =>
            \/ sent' = << >> /\ readyState' = "connecting"
            \/ /\ sent' = Append(sent, Frame("plugin-ready", "", ""))
               /\ readyState = "connecting" /\ readyState' = "open"
            \/ /\ toUi # << >> /\ readyState = "open"
               /\ sent' = Append(sent, Head(toUi))
               /\ toUi' = Tail(toUi)]_vars

(* C39 happens: of the three messages the plugin code posted for a         *)
(* delete-node operation, nodes-deleted was handled while the socket was   *)
(* OPEN and was sent; the socket began to close, and the two               *)
(* operation-completed messages handled after that were dropped.           *)
C39_Witness ==
    /\ readyState = "closing"
    /\ executed = <<"delete-node">>
    /\ toPlugin = << >> /\ toUi = << >>
    /\ sent = <<Frame("plugin-ready", "", ""),
                Frame("operation-completed", "connection-status", ""),
                Frame("nodes-deleted", "", "")>>

(* ---------------------------------------------------------------------- *)
(* The greetings of the two ends of a plugin connection                    *)
(* ---------------------------------------------------------------------- *)

(* The server accepts plugin sockets and broadcasts an operation to them,  *)
(* while the UI script connects, greets and forwards.                      *)
GreetingEnvelopes(id) ==
    {Rpc(TRUE, "2.0", id, "tools/call", t, Required(t) \cup Tested(t)) :
        t \in {"figma.createRectangle", "figma.moveNode"}}

GreetingNext ==
    \/ \E dt \in {0, 1} : PluginConnect(dt)
    \/ \E w \in Sockets : PluginClose(w)
    \/ SessionOpen
    \/ \E q \in SessionIds, rpc \in GreetingEnvelopes(Len(requests) + 1) :
            Len(requests) < MaxRequests /\ PostMessage(q, 0, rpc, {})
    \/ \E r \in DOMAIN requests : Timeout(r)
    \/ UiOnMessage
    \/ SocketOpen
    \/ SocketFail
    \/ SocketClosing
    \/ SocketClose
    \/ ServerFrame("server-ready")
    \/ \E ok \in BOOLEAN : Dispatch(ok)

GreetingSpec == Init /\ [][GreetingNext]_vars

(* C40: the connection handler of the server adds the socket to the pool   *)
(* and sends server-ready in one step, so server-ready is the first frame  *)
(* the server sends on every socket and no broadcast reaches a socket      *)
(* before it; the UI script sends plugin-ready when its socket opens, so   *)
(* plugin-ready is the first frame it sends on every socket.               *)
C40_GreetingFirst ==
    /\ [](\A w \in Sockets :
            /\ wsState[w] # "none" => wsOut[w] # << >>
            /\ wsOut[w] # << >> => wsOut[w][1].type = "server-ready")
    /\ [][\A w \in Sockets :
            (wsState[w] = "none" /\ wsState'[w] # "none") =>
                /\ w \in MapSockets(figmaClients')
                /\ wsOut'[w] = <<[type |-> "server-ready", req |-> 0]>>]_vars
    /\ [](/\ readyState \in {"open", "closing"} => sent # << >>
          /\ sent # << >> => sent[1] = Frame("plugin-ready", "", ""))
    /\ [][(readyState # "open" /\ readyState' = "open") =>
                sent' = <<Frame("plugin-ready", "", "")>>]_vars

(* C40 happens: a socket of the server has got server-ready and then a     *)
(* broadcast operation, and the UI script has sent plugin-ready and after  *)
(* it a forwarded message.                                                 *)
C40_Witness ==
    /\ \E w \in Sockets :
        /\ Len(wsOut[w]) = 2
        /\ wsOut[w][1].type = "server-ready"
        /\ wsOut[w][2].type = "create-rectangle"
    /\ Len(sent) = 2
    /\ sent[1] = Frame("plugin-ready", "", "")
    /\ sent[2] = Frame("operation-completed", "connection-status", "")

====
